---- MODULE Spec2Model ----
(***************************************************************************)
(* Model of the trading-ledger engine of src/main.py: the ledger parser    *)
(* (_parse_stats_data_sync), the aggregations it feeds and the statistics  *)
(* cache (STATS_CACHE) with its refresh coroutine update_stats_cache.      *)
(*                                                                         *)
(* A ledger document is a sequence of lines.  A line is a record           *)
(* [k, key, val]:                                                          *)
(*   k = "sep"    a line containing the separator marker                   *)
(*   k = "blank"  an empty / whitespace-only line                          *)
(*   k = "hdr"    "<key> (<val>)": key the ticker text, val long|short     *)
(*   k = "kv"     "<key>: <val>"                                           *)
(*   k = "dash"   "<key> - <val>" (the two date lines of the header)       *)
(*   k = "text"   any other text without a colon                           *)
(* Numbers read from the text are fixed-point, in hundredths.  Calendar    *)
(* dates are day ordinals.                                                 *)
(***************************************************************************)
EXTENDS Integers, Sequences, FiniteSets, TLC

\* ------------------------------------------------------------------------
\* Line vocabulary
\* ------------------------------------------------------------------------
SepLine == [k |-> "sep", key |-> "--- Statistika", val |-> "Ilya Vlasov - Grabitel MM ---"]
BlankLine == [k |-> "blank", key |-> "", val |-> ""]
TextLine == [k |-> "text", key |-> "", val |-> "free text"]
Hdr(ticker, dir) == [k |-> "hdr", key |-> ticker, val |-> dir]
KV(key, val) == [k |-> "kv", key |-> key, val |-> val]
Dash(key, val) == [k |-> "dash", key |-> key, val |-> val]

\* Key texts of the ledger grammar (the Cyrillic keys are transliterated).
K_PNL == "Chistoe dvizhenie"
K_WINRATE == "Vinreit"
K_TOTAL == "Vsego sdelok"
K_SUCCESS == "Uspeshnyh"
K_LOSING == "Ubytochnyh"
K_BREAKEVEN == "V bezubytok"
K_INPROGRESS == "V otrabotke"
K_START == "Nachalo"
K_UPDATE == "Poslednee obnovlenie"
K_ENTRY == "ENTRY"
K_MARGIN == "Marzha"
K_EXITS == "Fiksacii"
K_DATE == "Data"

\* Tickers made only of A-Z and 0-9: the only ones the split pattern
\* [A-Z0-9]+\s+\((?:long|short)\) recognises at the start of a line.
UpperTickers == {"BTC", "ETH"}
\* Tickers the title pattern (.+?)\s+\((long|short)\) accepts but the split
\* pattern does not (a slash, a space, Cyrillic letters).
LooseTickers == {"BTC/USDT"}

\* Texts that contain the in-progress phrase, case-insensitively.
InProgressTexts == {"V otrabotke", "v otrabotke 50%"}

\* '{:02d}' of the two decimals.
Pad2(n) == IF n < 10 THEN "0" \o ToString(n) ELSE ToString(n)

\* f"{x:.2f}%" of a number given in hundredths.
FormatPercent(v) ==
  LET a == IF v < 0 THEN -v ELSE v
  IN (IF v < 0 THEN "-" ELSE "") \o ToString(a \div 100) \o "." \o Pad2(a % 100) \o "%"

\* The numbers whose two-decimal texts the table below holds: the multiples
\* of 0.50 from -50.00 to 100.00 and the win rates over thirds.
FloatValues == {50 * n : n \in -100..200} \cup {3333, 3334, 6667}

\* float(text.replace('%', '')): the texts float() accepts, in hundredths.
FloatTable ==
  [t \in {"0%"} \cup {FormatPercent(v) : v \in FloatValues} |->
     IF t = "0%" THEN 0 ELSE CHOOSE v \in FloatValues : FormatPercent(v) = t]

\* datetime.strptime(text, "%d.%m.%Y"): four-digit-year texts, as day ordinals
\* (day 1 is 1 January 2025, day 36525 is 1 January 2125).
StrptimeY4 ==
  [t \in {"01.01.2025", "02.01.2025", "03.01.2025", "04.01.2025", "01.01.2125"} |->
     CASE t = "01.01.2025" -> 1 [] t = "02.01.2025" -> 2 [] t = "03.01.2025" -> 3
       [] t = "04.01.2025" -> 4 [] t = "01.01.2125" -> 36525]

\* datetime.strptime(text, "%d.%m.%y"): two-digit-year texts, as day ordinals;
\* the years 00..68 are read as 2000..2068.
StrptimeY2 ==
  [t \in {"01.01.25", "02.01.25", "03.01.25", "04.01.25"} |->
     CASE t = "01.01.25" -> 1 [] t = "02.01.25" -> 2 [] t = "03.01.25" -> 3
       [] t = "04.01.25" -> 4]

\* The days of the hundred years from 1 January 2025 to 1 January 2125.
Century == 36524

\* date.strftime('%d.%m.%Y')
StrftimeY4(d) == CHOOSE t \in DOMAIN StrptimeY4 : StrptimeY4[t] = d

\* date.strftime('%d.%m.%y'): the century of the year is dropped.
StrftimeY2(d) ==
  CHOOSE t \in DOMAIN StrptimeY2 : StrptimeY2[t] = d \/ StrptimeY2[t] = d - Century

\* ------------------------------------------------------------------------
\* Python dict and list helpers
\* ------------------------------------------------------------------------
EmptyDict == <<>>

Put(d, key, v) == [x \in (DOMAIN d) \cup {key} |-> IF x = key THEN v ELSE d[x]]

Has(d, key) == key \in DOMAIN d

IsEmpty(d) == DOMAIN d = {}

\* ------------------------------------------------------------------------
\* _parse_stats_data_sync
\* ------------------------------------------------------------------------
\* sep_indices: the (1-based) indices of the lines containing the separator.
RECURSIVE SepIndicesFrom(_, _)
SepIndicesFrom(lines, i) ==
  IF i > Len(lines) THEN <<>>
  ELSE IF lines[i].k = "sep" THEN <<i>> \o SepIndicesFrom(lines, i + 1)
       ELSE SepIndicesFrom(lines, i + 1)

SepIndices(lines) == SepIndicesFrom(lines, 1)

NonBlank(lines) == SelectSeq(lines, LAMBDA l : l.k # "blank")

\* The nine-field header pattern; whitespace runs (blank lines) between the
\* fields are absorbed by the \s*\n of each field.
SummaryGrammar ==
  << <<"kv", K_PNL>>, <<"kv", K_WINRATE>>, <<"kv", K_TOTAL>>, <<"kv", K_SUCCESS>>,
     <<"kv", K_LOSING>>, <<"kv", K_BREAKEVEN>>, <<"kv", K_INPROGRESS>>,
     <<"dash", K_START>>, <<"dash", K_UPDATE>> >>

SummaryKeys ==
  <<"total_pnl", "winrate", "total_deals", "successful", "losing", "breakeven",
    "in_progress", "start_date", "last_update">>

MatchesAt(ls, i) ==
  /\ i + Len(SummaryGrammar) - 1 <= Len(ls)
  /\ \A j \in 1..Len(SummaryGrammar) :
       /\ ls[i + j - 1].k = SummaryGrammar[j][1]
       /\ ls[i + j - 1].key = SummaryGrammar[j][2]

\* Variant: each header field is looked up on its own, so a header with some
\* of its lines missing yields the keys that are there.
SummaryMatch_fieldwise(summary_lines) ==
  LET ls == NonBlank(summary_lines)
      found == {j \in 1..Len(SummaryGrammar) :
                  \E i \in 1..Len(ls) : ls[i].k = SummaryGrammar[j][1] /\ ls[i].key = SummaryGrammar[j][2]}
  IN IF found = {} THEN EmptyDict
     ELSE [f \in {SummaryKeys[j] : j \in found} |->
             LET j == CHOOSE n \in 1..Len(SummaryKeys) : SummaryKeys[n] = f
                 i == CHOOSE n \in 1..Len(ls) :
                        ls[n].k = SummaryGrammar[j][1] /\ ls[n].key = SummaryGrammar[j][2]
             IN ls[i].val]

\* re.search(summary_regex, summary_content) and the dict(zip(keys, groups)).
SummaryMatch(summary_lines) ==
  LET ls == NonBlank(summary_lines)
      starts == {i \in 1..Len(ls) : MatchesAt(ls, i)}
  IN IF starts = {} THEN EmptyDict
     ELSE LET i == CHOOSE s \in starts : \A o \in starts : s <= o
          IN [f \in {SummaryKeys[j] : j \in 1..Len(SummaryKeys)} |->
                LET j == CHOOSE n \in 1..Len(SummaryKeys) : SummaryKeys[n] = f
                IN ls[i + j - 1].val]

\* str.strip() of the trades text: leading and trailing blank lines go.
RECURSIVE StripLeft(_)
StripLeft(lines) ==
  IF lines = <<>> THEN <<>>
  ELSE IF Head(lines).k = "blank" THEN StripLeft(Tail(lines)) ELSE lines

RECURSIVE StripRight(_)
StripRight(lines) ==
  IF lines = <<>> THEN <<>>
  ELSE IF lines[Len(lines)].k = "blank" THEN StripRight(SubSeq(lines, 1, Len(lines) - 1))
       ELSE lines

Strip(lines) == StripRight(StripLeft(lines))

\* The lookahead of the split pattern: [A-Z0-9]+\s+\((?:long|short)\).
SplitHeader(l) == l.k = "hdr" /\ l.key \in UpperTickers

\* re.split(r'\n\s*\n+(?=...)', text): a new block starts at a line the
\* lookahead accepts when at least one blank line precedes it; the blank run
\* is consumed by the split.
RECURSIVE SplitFrom(_, _, _)
SplitFrom(lines, i, cur) ==
  IF i > Len(lines) THEN <<cur>>
  ELSE IF i > 1 /\ SplitHeader(lines[i]) /\ lines[i - 1].k = "blank"
       THEN <<StripRight(cur)>> \o SplitFrom(lines, i + 1, <<lines[i]>>)
       ELSE SplitFrom(lines, i + 1, Append(cur, lines[i]))

TradeBlocks(trade_lines) == SplitFrom(Strip(trade_lines), 1, <<>>)

\* re.match(r"(.+?)\s+\((long|short)\)", block_lines[0])
TitleMatch(l) == l.k = "hdr"

\* ':' in line
HasColon(l) == l.k \in {"kv", "sep"}

\* key_map.get(key.lower()): an unknown key maps to None.
KeyMap(key) ==
  CASE key = K_PNL -> "pnl"
    [] key = K_ENTRY -> "entry"
    [] key = K_MARGIN -> "margin"
    [] key = K_EXITS -> "exits"
    [] key = K_DATE -> "date"
    [] OTHER -> "None"

\* The for-loop over block_lines[1:].
RECURSIVE ReadFields(_, _, _)
ReadFields(trade, block_lines, i) ==
  IF i > Len(block_lines) THEN trade
  ELSE LET l == block_lines[i]
       IN IF HasColon(l)
          THEN LET t1 == IF l.key = K_EXITS /\ l.val \in InProgressTexts
                         THEN Put(trade, "in_progress", TRUE) ELSE trade
               IN ReadFields(Put(t1, KeyMap(l.key), l.val), block_lines, i + 1)
          ELSE ReadFields(trade, block_lines, i + 1)

WithPnlValue(trade) ==
  IF trade["in_progress"] THEN Put(trade, "pnl_value", 0)
  ELSE IF Has(trade, "pnl")
       THEN IF trade["pnl"] \in DOMAIN FloatTable
            THEN Put(trade, "pnl_value", FloatTable[trade["pnl"]])
            ELSE Put(trade, "pnl_value", 0)
       ELSE trade

\* The two strptime attempts; FALSE when both raise ValueError.
DateParses(text) == text \in (DOMAIN StrptimeY4) \cup (DOMAIN StrptimeY2)

DateOf(text) == IF text \in DOMAIN StrptimeY4 THEN StrptimeY4[text] ELSE StrptimeY2[text]

\* One iteration of the loop over trade_blocks: the list of trades it appends
\* (empty when the block is skipped).
ParseBlock(block, i) ==
  LET block_lines == NonBlank(block)
  IN IF block_lines = <<>> THEN <<>>
     ELSE IF ~TitleMatch(block_lines[1]) THEN <<>>
     ELSE LET t0 == Put(Put(Put(Put(EmptyDict, "in_progress", FALSE), "original_index", i),
                            "ticker", block_lines[1].key), "type", block_lines[1].val)
              t1 == ReadFields(t0, block_lines, 2)
              t2 == WithPnlValue(t1)
          IN IF Has(t2, "date")
             THEN IF DateParses(t2["date"])
                  THEN <<Put(t2, "date_dt", DateOf(t2["date"]))>>
                  ELSE <<>>
             ELSE <<t2>>

RECURSIVE ParseBlocks(_, _)
ParseBlocks(blocks, i) ==
  IF i > Len(blocks) THEN <<>>
  ELSE ParseBlock(blocks[i], i - 1) \o ParseBlocks(blocks, i + 1)

EmptyParse == [summary |-> EmptyDict, trades |-> <<>>]

\* Variant: one separator is taken to be enough, the header then runs to the
\* end of the text.
parse_stats_data_sync_oneSep(lines) ==
  LET sep_indices == SepIndices(lines)
  IN IF Len(sep_indices) < 1 THEN EmptyParse
     ELSE IF Len(sep_indices) < 2
          THEN [summary |-> SummaryMatch(SubSeq(lines, sep_indices[1] + 1, Len(lines))),
                trades |-> <<>>]
          ELSE [summary |-> SummaryMatch(SubSeq(lines, sep_indices[1] + 1, sep_indices[2] - 1)),
                trades |-> ParseBlocks(TradeBlocks(SubSeq(lines, sep_indices[2] + 1, Len(lines))), 1)]

\* Variant: a header that does not match ends the parse with nothing.
parse_stats_data_sync_allOrNothing(lines) ==
  LET sep_indices == SepIndices(lines)
  IN IF Len(sep_indices) < 2 THEN EmptyParse
     ELSE IF IsEmpty(SummaryMatch(SubSeq(lines, sep_indices[1] + 1, sep_indices[2] - 1)))
          THEN EmptyParse
          ELSE [summary |-> SummaryMatch(SubSeq(lines, sep_indices[1] + 1, sep_indices[2] - 1)),
                trades |-> ParseBlocks(TradeBlocks(SubSeq(lines, sep_indices[2] + 1, Len(lines))), 1)]

parse_stats_data_sync(lines) ==
  LET sep_indices == SepIndices(lines)
  IN IF Len(sep_indices) < 2 THEN EmptyParse
     ELSE [summary |-> SummaryMatch(SubSeq(lines, sep_indices[1] + 1, sep_indices[2] - 1)),
           trades |-> ParseBlocks(TradeBlocks(SubSeq(lines, sep_indices[2] + 1, Len(lines))), 1)]

\* ------------------------------------------------------------------------
\* Chronological processing order (streaks, PnL chart, simulation)
\* ------------------------------------------------------------------------
\* Variant: the filter keeps every dated trade, open ones included.
CompletedDated_dated(trades) == SelectSeq(trades, LAMBDA t : Has(t, "date_dt"))

\* [t for t in trades if not t.get('in_progress') and 'date_dt' in t]
CompletedDated(trades) ==
  SelectSeq(trades, LAMBDA t : ~t["in_progress"] /\ Has(t, "date_dt"))

\* The sort key (x['date_dt'], -x.get('original_index', 0)).
KeyLess(a, b) ==
  \/ a["date_dt"] < b["date_dt"]
  \/ a["date_dt"] = b["date_dt"] /\ a["original_index"] > b["original_index"]

RECURSIVE InsertSorted(_, _)
InsertSorted(sorted, t) ==
  IF sorted = <<>> THEN <<t>>
  ELSE IF KeyLess(t, Head(sorted)) THEN <<t>> \o sorted
       ELSE <<Head(sorted)>> \o InsertSorted(Tail(sorted), t)

\* sorted(completed_trades, key=...): a stable sort.
RECURSIVE Sorted(_)
Sorted(ts) ==
  IF ts = <<>> THEN <<>>
  ELSE InsertSorted(Sorted(SubSeq(ts, 1, Len(ts) - 1)), ts[Len(ts)])

ChronoTrades(trades) == Sorted(CompletedDated(trades))

\* trade.get('pnl_value', 0)
PnlValue(t) == IF Has(t, "pnl_value") THEN t["pnl_value"] ELSE 0

Max(a, b) == IF a >= b THEN a ELSE b

\* ------------------------------------------------------------------------
\* _calculate_streaks_sync
\* ------------------------------------------------------------------------
\* Variant: a breakeven trade does not end a winning run.
StreakStep_noReset(st, t) ==
  LET pnl == PnlValue(t)
      win == IF pnl > 0 THEN st.win + 1 ELSE IF pnl < 0 THEN 0 ELSE st.win
      loss == IF pnl > 0 THEN 0 ELSE IF pnl < 0 THEN st.loss + 1 ELSE 0
      be == IF pnl > 0 \/ pnl < 0 THEN 0 ELSE st.be + 1
  IN [win |-> win, loss |-> loss, be |-> be,
      max_win |-> Max(st.max_win, win), max_loss |-> Max(st.max_loss, loss),
      max_be |-> Max(st.max_be, be)]

\* One iteration of the loop: st holds the running counters and the maxima.
StreakStep(st, t) ==
  LET pnl == PnlValue(t)
      win == IF pnl > 0 THEN st.win + 1 ELSE 0
      loss == IF pnl > 0 THEN 0 ELSE IF pnl < 0 THEN st.loss + 1 ELSE 0
      be == IF pnl > 0 \/ pnl < 0 THEN 0 ELSE st.be + 1
  IN [win |-> win, loss |-> loss, be |-> be,
      max_win |-> Max(st.max_win, win), max_loss |-> Max(st.max_loss, loss),
      max_be |-> Max(st.max_be, be)]

RECURSIVE StreakPass(_, _)
StreakPass(st, ts) ==
  IF ts = <<>> THEN st ELSE StreakPass(StreakStep(st, Head(ts)), Tail(ts))

StreakStart == [win |-> 0, loss |-> 0, be |-> 0, max_win |-> 0, max_loss |-> 0, max_be |-> 0]

\* The running counters and maxima after each pass of the loop.
StreakTrace(ts) == [k \in 1..Len(ts) |-> StreakPass(StreakStart, SubSeq(ts, 1, k))]

\* Returns the dict update_stats_cache stores under "streaks".
calculate_streaks_sync(trades) ==
  IF trades = <<>> THEN [win |-> 0, loss |-> 0, be |-> 0]
  ELSE LET st == StreakPass(StreakStart, ChronoTrades(trades))
       IN [win |-> st.max_win, loss |-> st.max_loss, be |-> st.max_be]

\* ------------------------------------------------------------------------
\* plot_pnl_chart / plot_summary_chart / plot_simulation_chart
\* A chart is represented by the data series it draws.
\* ------------------------------------------------------------------------
\* df['pnl_value'].cumsum(): a trade without pnl_value is NaN in the frame,
\* cumsum skips it and leaves NaN at its row.
RECURSIVE CumSum(_, _)
CumSum(ts, acc) ==
  IF ts = <<>> THEN <<>>
  ELSE LET t == Head(ts)
       IN IF Has(t, "pnl_value")
          THEN <<[ticker |-> t["ticker"], nan |-> FALSE, cumulative_pnl |-> acc + t["pnl_value"]]>>
                 \o CumSum(Tail(ts), acc + t["pnl_value"])
          ELSE <<[ticker |-> t["ticker"], nan |-> TRUE, cumulative_pnl |-> 0]>>
                 \o CumSum(Tail(ts), acc)

\* The worker of plot_pnl_chart returns the tuple (None, None) when there is
\* no completed dated trade or no pnl_value column; the caller tests
\* `fig is None`, which a tuple is not, and hands the tuple to the plotting
\* library, which raises ValueError.
PlotPnlRaises(trades) ==
  \/ CompletedDated(trades) = <<>>
  \/ \A i \in 1..Len(CompletedDated(trades)) : ~Has(CompletedDated(trades)[i], "pnl_value")

\* The worker's own filter and sort (lines 467-470).
PnlChronoTrades(trades) == Sorted(CompletedDated(trades))

plot_pnl_chart(trades) == CumSum(PnlChronoTrades(trades), 0)

\* int(text) for the count fields of the header.
IntTable ==
  [t \in {ToString(n) : n \in 0..9} |-> CHOOSE n \in 0..9 : ToString(n) = t]

NoChart == <<>>

\* int(summary.get(key, 0))
SummaryInt(summary, key) == IF Has(summary, key) THEN IntTable[summary[key]] ELSE 0

plot_summary_chart(summary) ==
  IF \E key \in {"successful", "losing", "breakeven"} :
          Has(summary, key) /\ summary[key] \notin DOMAIN IntTable
  THEN NoChart
  ELSE LET values == <<SummaryInt(summary, "successful"), SummaryInt(summary, "losing"),
                       SummaryInt(summary, "breakeven")>>
       IN IF values[1] + values[2] + values[3] = 0 THEN NoChart ELSE values

plot_simulation_chart(history) == IF history = <<>> THEN NoChart ELSE history

\* ------------------------------------------------------------------------
\* calculate_simulation
\* Money is in hundredths of a currency unit, risk_percent and leverage are
\* whole numbers, pnl_value and the growth percentages are in hundredths of
\* a percent; each product is taken in the order of the code.
\* ------------------------------------------------------------------------
SeqMin(s) == CHOOSE x \in {s[i] : i \in DOMAIN s} : \A y \in {s[i] : i \in DOMAIN s} : x <= y

SeqMax(s) == CHOOSE x \in {s[i] : i \in DOMAIN s} : \A y \in {s[i] : i \in DOMAIN s} : x >= y

\* Variant: the trade capital follows the current balance in both modes.
RECURSIVE SimLoop_alwaysCompound(_, _, _, _, _, _, _)
SimLoop_alwaysCompound(ts, sim_type, initial_balance, risk_percent, leverage, current_balance, balance_history) ==
  IF ts = <<>> THEN [balance |-> current_balance, history |-> balance_history]
  ELSE LET pnl_percent == PnlValue(Head(ts))
           trade_capital == (current_balance * risk_percent) \div 100
           position_size == trade_capital * leverage
           profit_or_loss == (position_size * pnl_percent) \div 10000
           new_balance == current_balance + profit_or_loss
           growth_percent == IF initial_balance > 0
                             THEN ((new_balance - initial_balance) * 10000) \div initial_balance
                             ELSE 0
       IN SimLoop_alwaysCompound(Tail(ts), sim_type, initial_balance, risk_percent, leverage,
                                 new_balance, Append(balance_history, growth_percent))

RECURSIVE SimLoop(_, _, _, _, _, _, _)
SimLoop(ts, sim_type, initial_balance, risk_percent, leverage, current_balance, balance_history) ==
  IF ts = <<>> THEN [balance |-> current_balance, history |-> balance_history]
  ELSE LET pnl_percent == PnlValue(Head(ts))
           base == IF sim_type = "compound" THEN current_balance ELSE initial_balance
           trade_capital == (base * risk_percent) \div 100
           position_size == trade_capital * leverage
           profit_or_loss == (position_size * pnl_percent) \div 10000
           new_balance == current_balance + profit_or_loss
           growth_percent == IF initial_balance > 0
                             THEN ((new_balance - initial_balance) * 10000) \div initial_balance
                             ELSE 0
       IN SimLoop(Tail(ts), sim_type, initial_balance, risk_percent, leverage,
                  new_balance, Append(balance_history, growth_percent))

\* Variant: open trades with a date are processed too.
SimChronoTrades_withOpen(trades) == Sorted(SelectSeq(trades, LAMBDA t : Has(t, "date_dt")))

\* Variant: the trades are processed in document order.
SimChronoTrades_unsorted(trades) == CompletedDated(trades)

\* The worker's own filter and sort (lines 494-496).
SimChronoTrades(trades) == Sorted(CompletedDated(trades))

\* Variant: min and max are taken over the points of the trades only.
calculate_simulation_tradesOnly(trades, sim_type, initial_balance, risk_percent, leverage) ==
  LET r == SimLoop(SimChronoTrades(trades), sim_type, initial_balance, risk_percent, leverage,
                   initial_balance, <<0>>)
      points == IF Len(r.history) > 1 THEN Tail(r.history) ELSE r.history
  IN [min_percent |-> SeqMin(points), max_percent |-> SeqMax(points),
      final_percent |-> r.history[Len(r.history)], final_balance |-> r.balance,
      history |-> r.history]

calculate_simulation(trades, sim_type, initial_balance, risk_percent, leverage) ==
  LET r == SimLoop(SimChronoTrades(trades), sim_type, initial_balance, risk_percent, leverage,
                   initial_balance, <<0>>)
  IN [min_percent |-> SeqMin(r.history), max_percent |-> SeqMax(r.history),
      final_percent |-> r.history[Len(r.history)], final_balance |-> r.balance,
      history |-> r.history]

\* ------------------------------------------------------------------------
\* cq_check_stats: the counts recomputed from the trade list (lines 1764-1770)
\* ------------------------------------------------------------------------
cq_check_stats_counts(trades) ==
  LET completed_trades == SelectSeq(trades, LAMBDA t : ~t["in_progress"])
      successful == Len(SelectSeq(completed_trades, LAMBDA t : PnlValue(t) > 0))
      losing == Len(SelectSeq(completed_trades, LAMBDA t : PnlValue(t) < 0))
  IN [in_progress |-> Len(trades) - Len(completed_trades),
      successful |-> successful,
      losing |-> losing,
      breakeven |-> Len(completed_trades) - successful - losing,
      total_deals |-> Len(trades)]

\* ------------------------------------------------------------------------
\* The separator marker inside a line
\* ------------------------------------------------------------------------
\* A line that holds the marker with the text `before` in front of it and the
\* text `after` behind it.
SepWith(before, after) ==
  [k |-> "sep", key |-> before \o "--- Statistika", val |-> "Ilya Vlasov - Grabitel MM ---" \o after]

\* The texts found next to a marker on its line.
MarkerNotes == {"", " v2"}

BeforeMarker(l) == CHOOSE b \in MarkerNotes : \E a \in MarkerNotes : l = SepWith(b, a)

AfterMarker(l) == CHOOSE a \in MarkerNotes : \E b \in MarkerNotes : l = SepWith(b, a)

\* ------------------------------------------------------------------------
\* cq_check_stats and auto_rewrite_stats_header: the values recomputed from
\* the trade list.  winrate is kept in ten-thousandths of a percent, total_pnl
\* in hundredths; last_trade_date is a day ordinal, 0 standing for None.
\* ------------------------------------------------------------------------
\* (successful / (successful + losing) * 100) if (successful + losing) > 0 else 0
Winrate(successful, losing) ==
  IF successful + losing > 0 THEN (successful * 1000000) \div (successful + losing) ELSE 0

\* sum(t.get('pnl_value', 0) for t in completed_trades)
RECURSIVE SumPnl(_)
SumPnl(ts) == IF ts = <<>> THEN 0 ELSE PnlValue(Head(ts)) + SumPnl(Tail(ts))

\* any(t.get('date_dt') for t in trades)
AnyDate(trades) == \E i \in 1..Len(trades) : Has(trades[i], "date_dt")

\* max(t['date_dt'] for t in trades if 'date_dt' in t)
MaxDate(trades) ==
  LET ds == {trades[i]["date_dt"] : i \in {j \in 1..Len(trades) : Has(trades[j], "date_dt")}}
  IN CHOOSE d \in ds : \A e \in ds : d >= e

None == 0

\* Lines 1764-1773 of cq_check_stats.
cq_check_stats_values(trades) ==
  LET completed_trades == SelectSeq(trades, LAMBDA t : ~t["in_progress"])
      counts == cq_check_stats_counts(trades)
  IN [in_progress |-> counts.in_progress,
      successful |-> counts.successful,
      losing |-> counts.losing,
      breakeven |-> counts.breakeven,
      total_deals |-> counts.total_deals,
      winrate |-> Winrate(counts.successful, counts.losing),
      total_pnl |-> SumPnl(completed_trades),
      last_trade_date |-> IF AnyDate(trades) THEN MaxDate(trades) ELSE None]

\* Variant: the total counts the completed trades only.
auto_rewrite_values_completedOnly(trades, now) ==
  LET completed_trades == SelectSeq(trades, LAMBDA t : ~t["in_progress"])
      in_progress_trades_count == Len(trades) - Len(completed_trades)
      successful == Len(SelectSeq(completed_trades, LAMBDA t : PnlValue(t) > 0))
      losing == Len(SelectSeq(completed_trades, LAMBDA t : PnlValue(t) < 0))
      breakeven == Len(completed_trades) - successful - losing
  IN [in_progress |-> in_progress_trades_count,
      successful |-> successful,
      losing |-> losing,
      breakeven |-> breakeven,
      total_deals |-> Len(completed_trades),
      winrate |-> Winrate(successful, losing),
      total_pnl |-> SumPnl(completed_trades),
      last_trade_date |-> IF AnyDate(trades) THEN MaxDate(trades) ELSE now]

\* Lines 1820-1829 of auto_rewrite_stats_header; now is datetime.now().
auto_rewrite_values(trades, now) ==
  LET completed_trades == SelectSeq(trades, LAMBDA t : ~t["in_progress"])
      in_progress_trades_count == Len(trades) - Len(completed_trades)
      successful == Len(SelectSeq(completed_trades, LAMBDA t : PnlValue(t) > 0))
      losing == Len(SelectSeq(completed_trades, LAMBDA t : PnlValue(t) < 0))
      breakeven == Len(completed_trades) - successful - losing
  IN [in_progress |-> in_progress_trades_count,
      successful |-> successful,
      losing |-> losing,
      breakeven |-> breakeven,
      total_deals |-> Len(trades),
      winrate |-> Winrate(successful, losing),
      total_pnl |-> SumPnl(completed_trades),
      last_trade_date |-> IF AnyDate(trades) THEN MaxDate(trades) ELSE now]

\* f"{winrate:.2f}%": the float is rounded to two decimals.
FormatWinrate(w) == FormatPercent((w + 50) \div 100)

\* new_header_content (lines 1831-1842) with the "\n" before it and the
\* "\n\n\n" behind it of the replacement pattern, as lines.
new_header_content(summary, v) ==
  <<KV(K_PNL, FormatPercent(v.total_pnl)),
    KV(K_WINRATE, FormatWinrate(v.winrate)),
    KV(K_TOTAL, ToString(v.total_deals)),
    KV(K_SUCCESS, ToString(v.successful)),
    KV(K_LOSING, ToString(v.losing)),
    KV(K_BREAKEVEN, ToString(v.breakeven)),
    KV(K_INPROGRESS, ToString(v.in_progress)),
    BlankLine, BlankLine,
    Dash(K_START, IF Has(summary, "start_date") THEN summary["start_date"] ELSE "N/A"),
    Dash(K_UPDATE, StrftimeY2(v.last_trade_date)),
    TextLine, BlankLine, BlankLine>>

\* Variant: the text is written anew from the first marker on, the marker
\* lines as the bare marker.
RewriteHeader_fromMarker(full_content, header) ==
  LET sep_indices == SepIndices(full_content)
  IN IF Len(sep_indices) < 2 THEN full_content
     ELSE <<SepLine>> \o header \o <<SepLine>>
            \o SubSeq(full_content, sep_indices[2] + 1, Len(full_content))

\* re.sub(rf"({sep})(.*?)({sep})", rf"\1\n{header}\n\n\n\3", full_content,
\* count=1, flags=re.DOTALL): everything from the end of the first marker to
\* the start of the second marker is replaced; a text with fewer than two
\* markers is left as it is.
RewriteHeader(full_content, header) ==
  LET sep_indices == SepIndices(full_content)
  IN IF Len(sep_indices) < 2 THEN full_content
     ELSE SubSeq(full_content, 1, sep_indices[1] - 1)
            \o <<SepWith(BeforeMarker(full_content[sep_indices[1]]), "")>>
            \o header
            \o <<SepWith("", AfterMarker(full_content[sep_indices[2]]))>>
            \o SubSeq(full_content, sep_indices[2] + 1, Len(full_content))

\* float(summary.get(key, '0%').replace('%', '')) raises ValueError.
FloatRaises(summary, key) == Has(summary, key) /\ summary[key] \notin DOMAIN FloatTable

\* float(summary.get(key, '0%').replace('%', ''))
SummaryFloat(summary, key) == IF Has(summary, key) THEN FloatTable[summary[key]] ELSE 0

\* int(summary.get(key, 0)) raises ValueError.
IntRaises(summary, key) == Has(summary, key) /\ summary[key] \notin DOMAIN IntTable

\* `if file_update_date_str and last_trade_date`
DateCompared(summary, v) ==
  Has(summary, "last_update") /\ summary["last_update"] # "" /\ v.last_trade_date # None

CountKeys == {"total_deals", "successful", "losing", "breakeven", "in_progress"}

\* The try block of cq_check_stats (lines 1776-1796) raises: a number of the
\* header is not one, or the date is not in the "%d.%m.%y" form.
CompareRaises(summary, v) ==
  \/ FloatRaises(summary, "total_pnl")
  \/ FloatRaises(summary, "winrate")
  \/ \E key \in CountKeys : IntRaises(summary, key)
  \/ DateCompared(summary, v) /\ summary["last_update"] \notin DOMAIN StrptimeY2

Abs(x) == IF x < 0 THEN -x ELSE x

\* Variant: the numbers are compared without a tolerance.
Discrepancies_exact(summary, v) ==
  {key \in {"total_pnl"} : SummaryFloat(summary, "total_pnl") # v.total_pnl}
    \cup {key \in {"winrate"} : SummaryFloat(summary, "winrate") * 100 # v.winrate}
    \cup {key \in CountKeys : SummaryInt(summary, key) # v[key]}
    \cup {key \in {"last_update"} :
            DateCompared(summary, v) /\ StrptimeY2[summary["last_update"]] # v.last_trade_date}

\* The fields the try block appends to discrepancies.
Discrepancies(summary, v) ==
  {key \in {"total_pnl"} : Abs(SummaryFloat(summary, "total_pnl") - v.total_pnl) > 1}
    \cup {key \in {"winrate"} : Abs(SummaryFloat(summary, "winrate") * 100 - v.winrate) > 100}
    \cup {key \in CountKeys : SummaryInt(summary, key) # v[key]}
    \cup {key \in {"last_update"} :
            DateCompared(summary, v) /\ StrptimeY2[summary["last_update"]] # v.last_trade_date}

\* What cq_check_stats answers for a parse result (lines 1759-1813).
CheckReport(parsed) ==
  IF parsed.trades = <<>> THEN [kind |-> "no_trades", discrepancies |-> {}]
  ELSE LET v == cq_check_stats_values(parsed.trades)
       IN IF CompareRaises(parsed.summary, v) THEN [kind |-> "error", discrepancies |-> {}]
          ELSE IF Discrepancies(parsed.summary, v) = {}
               THEN [kind |-> "ok", discrepancies |-> {}]
               ELSE [kind |-> "discrepancies", discrepancies |-> Discrepancies(parsed.summary, v)]

\* The reference parameters of the cached simulations: 1000.0, 3.0, 35.0.
RefBalance == 100000
RefRisk == 3
RefLeverage == 35

RefParams(sim_type) ==
  [sim_type |-> sim_type, initial_balance |-> RefBalance, risk_percent |-> RefRisk,
   leverage |-> RefLeverage]

\* ------------------------------------------------------------------------
\* Ledger versions used as file contents
\* ------------------------------------------------------------------------
HeaderBlock(pnl, winrate, total, ok, bad, be, open, start, upd) ==
  <<KV(K_PNL, pnl), KV(K_WINRATE, winrate), KV(K_TOTAL, total), KV(K_SUCCESS, ok),
    KV(K_LOSING, bad), KV(K_BREAKEVEN, be), KV(K_INPROGRESS, open), BlankLine, BlankLine,
    Dash(K_START, start), Dash(K_UPDATE, upd), TextLine, BlankLine>>

\* Two completed trades.
LedgerA ==
  <<SepLine>> \o HeaderBlock("2.50%", "50.00%", "2", "1", "1", "0", "0", "01.01.25", "02.01.25")
    \o <<SepLine, BlankLine,
         Hdr("ETH", "short"), KV(K_PNL, "-3.00%"), KV(K_ENTRY, "50"), KV(K_MARGIN, "X1"),
         KV(K_EXITS, "45 (100%)"), KV(K_DATE, "02.01.2025"), BlankLine,
         Hdr("BTC", "long"), KV(K_PNL, "5.00%"), KV(K_ENTRY, "100"), KV(K_MARGIN, "X1"),
         KV(K_EXITS, "105 (100%)"), KV(K_DATE, "01.01.2025")>>

\* One completed trade.
LedgerB ==
  <<SepLine>> \o HeaderBlock("2.50%", "100.00%", "1", "1", "0", "0", "0", "01.01.25", "03.01.25")
    \o <<SepLine, BlankLine,
         Hdr("BTC", "long"), KV(K_PNL, "2.50%"), KV(K_ENTRY, "100"), KV(K_MARGIN, "X1"),
         KV(K_EXITS, "102.5 (100%)"), KV(K_DATE, "03.01.25")>>

\* A well-formed ledger whose only trade is still open.
LedgerOpen ==
  <<SepLine>> \o HeaderBlock("0%", "0%", "1", "0", "0", "0", "1", "01.01.25", "01.01.25")
    \o <<SepLine, BlankLine,
         Hdr("ETH", "long"), KV(K_ENTRY, "50"), KV(K_MARGIN, "X1"),
         KV(K_EXITS, "V otrabotke"), KV(K_DATE, "01.01.2025")>>

\* The second separator is missing.
LedgerBroken ==
  <<SepLine>> \o HeaderBlock("0%", "0%", "0", "0", "0", "0", "0", "01.01.25", "01.01.25")
    \o <<BlankLine, Hdr("BTC", "long"), KV(K_PNL, "5.00%"), KV(K_DATE, "01.01.2025")>>

\* The header lacks its win-rate line and so does not match the grammar; the
\* one trade is well-formed.
LedgerNoHeader ==
  <<SepLine, KV(K_PNL, "5.00%"), KV(K_TOTAL, "1"), Dash(K_START, "01.01.25"), BlankLine,
    SepLine, BlankLine, Hdr("BTC", "long"), KV(K_PNL, "5.00%"), KV(K_DATE, "01.01.2025")>>

Ledgers == {LedgerA, LedgerB, LedgerOpen, LedgerBroken, LedgerNoHeader}

\* ------------------------------------------------------------------------
\* State
\* ------------------------------------------------------------------------
NTasks == 2

MaxRefreshes == 2

Tasks == 1..NTasks

VARIABLES
  stats_file,   \* the content of STATS_FILE
  STATS_CACHE,  \* the module-level dict
  pc,           \* per handler task: its position
  l_parsed,     \* per handler task: the (summary, trades) its parse returned
  started,      \* number of handler tasks started so far
  content,      \* parser harness: the text handed to the parser
  called,       \* parser harness: the parser has been called
  result,       \* parser harness: what the parser returned
  a_trades,     \* aggregation harness: the trade list handed to the aggregations
  a_params,     \* aggregation harness: sim_type, initial_balance, risk_percent, leverage
  a_pc,         \* aggregation harness: which aggregations have run
  a_out,        \* aggregation harness: what each aggregation returned
  sim_runs,     \* the custom simulation runs: arguments and results
  stats_backup, \* the content of the newest stats_backup_<timestamp>.txt
  report,       \* what the discrepancy check last answered
  fsm_state,    \* the dialogue state of the administrator (FSMContext)
  fsm_data,     \* the dialogue data of the administrator (FSMContext)
  l_trade_text, \* per handler task: the trade text cq_add_trade_to_stats took from the dialogue
  calc_answer,  \* what the calculator dialogue last answered
  sim_state,    \* per chat: the dialogue state of the user (FSMContext)
  sim_data,     \* per chat: the dialogue data of the user (FSMContext)
  used_count,   \* database['users'][uid]['limits']['used_count'] of today
  last_sim_recent, \* the user's last_sim_time is less than the cooldown ago
  sim_call,     \* per chat: the arguments of the calculate_simulation call in flight
  completed_today, \* the custom simulations whose results were sent today
  broadcast_content, \* broadcast_content[admin_id]
  broadcast_queue,   \* the items of the asyncio.Queue
  unfinished_tasks,  \* the queue's count of items put and not yet task_done
  worker,       \* broadcast_worker: its position and its local variables
  outbox,       \* the send attempts of broadcast_worker, in order
  batch_report, \* the newest batch report of broadcast_worker
  next_message_id \* the message id the next message of the administrator gets

vars ==
  <<stats_file, STATS_CACHE, pc, l_parsed, started, content, called, result,
    a_trades, a_params, a_pc, a_out, sim_runs, stats_backup, report, fsm_state, fsm_data, l_trade_text,
    calc_answer, sim_state, sim_data, used_count, last_sim_recent, sim_call, completed_today,
    broadcast_content, broadcast_queue, unfinished_tasks, worker, outbox, batch_report,
    next_message_id>>

customVars == <<sim_state, sim_data, used_count, last_sim_recent, sim_call, completed_today>>

broadcastVars ==
  <<broadcast_content, broadcast_queue, unfinished_tasks, worker, outbox, batch_report,
    next_message_id>>

dialogVars ==
  <<report, fsm_state, fsm_data, l_trade_text, calc_answer, customVars, broadcastVars>>

recVars ==
  <<stats_backup, report, fsm_state, fsm_data, l_trade_text, calc_answer, customVars,
    broadcastVars>>

aggVars == <<a_trades, a_params, a_pc, a_out>>

cacheVars == <<stats_file, STATS_CACHE, pc, l_parsed, started>>

parserVars == <<content, called, result>>

\* No backup copy has been written yet.
NoBackup == <<>>

\* The calculator has not answered yet.
NoAnswer == [kind |-> "none", total_percent |-> 0]

\* No check has answered yet.
NoReport == [kind |-> "none", discrepancies |-> {}]

\* The chats in which the user talks to the bot, the private chat and a
\* group; the dialogue state is kept per chat and user.
Chats == {"private", "group"}

CUSTOM_SIM_LIMIT == 15

\* No call of calculate_simulation is in flight.
NoCall == <<>>

\* Nobody is in the custom simulation dialogue and no custom simulation has
\* run today.
NoCustomDialogue ==
  /\ sim_state = [c \in Chats |-> "None"]
  /\ sim_data = [c \in Chats |-> EmptyDict]
  /\ used_count = 0
  /\ last_sim_recent = FALSE
  /\ sim_call = [c \in Chats |-> NoCall]
  /\ completed_today = 0

NoTask == <<>>

NoBatchReport == [batch |-> 0, sent_total |-> 0, failed_total |-> 0]

\* broadcast_worker at the top of its outer loop (lines 1941-1946).
WorkerStart ==
  [pc |-> "get", task |-> NoTask, sent_total |-> 0, failed_total |-> 0, failed_users |-> <<>>]

\* The queue is empty and the worker waits in broadcast_queue.get().
NoBroadcast ==
  /\ broadcast_content = EmptyDict
  /\ broadcast_queue = <<>>
  /\ unfinished_tasks = 0
  /\ worker = WorkerStart
  /\ outbox = <<>>
  /\ batch_report = NoBatchReport
  /\ next_message_id = 1

\* create_stats_backup: shutil.copy(STATS_FILE, backup_filename); the value
\* is the content of the copy.  No caller looks at the returned flag.
create_stats_backup == stats_file

\* STATS_CACHE.get(key, default)
Get(key, default) == IF Has(STATS_CACHE, key) THEN STATS_CACHE[key] ELSE default

\* `not summary and not trades`
NothingParsed(parsed) == IsEmpty(parsed.summary) /\ parsed.trades = <<>>

Init ==
  /\ stats_file \in Ledgers
  /\ STATS_CACHE = EmptyDict
  /\ pc = [t \in Tasks |-> "idle"]
  /\ l_parsed = [t \in Tasks |-> EmptyParse]
  /\ started = 0
  /\ content = <<>>
  /\ called = FALSE
  /\ result = EmptyParse
  /\ a_trades = <<>>
  /\ a_params = RefParams("compound")
  /\ a_pc = "start"
  /\ a_out = EmptyDict
  /\ sim_runs = <<>>
  /\ stats_backup = NoBackup
  /\ report = NoReport
  /\ fsm_state = "None"
  /\ fsm_data = EmptyDict
  /\ l_trade_text = [t \in Tasks |-> <<>>]
  /\ calc_answer = NoAnswer
  /\ NoCustomDialogue
  /\ NoBroadcast

\* ------------------------------------------------------------------------
\* Callers of update_stats_cache
\* ------------------------------------------------------------------------
\* update_stats_cache has no return statement with a value: it returns None
\* both when it aborts (line 530) and when it completes (line 554).
ReturnValue(completed) == "None"

\* Every caller ignores the returned value and answers that the cache was
\* updated (cq_refresh_cache line 1185, handle_stats_update line 1482,
\* handle_stats_restore line 162).
AnswerAfterReturn(returned) == "success"

\* An exception leaving update_stats_cache reaches the except clause of the
\* caller or the dispatcher's error handler, which answer with an error.
AnswerAfterRaise == "error"

\* cq_refresh_cache up to the call of update_stats_cache.
cq_refresh_cache(t) ==
  /\ pc[t] = "idle"
  /\ started < MaxRefreshes
  /\ started' = started + 1
  /\ pc' = [pc EXCEPT ![t] = "parse"]
  /\ UNCHANGED <<stats_file, STATS_CACHE, l_parsed>>

\* Variant: the uploaded text replaces the file whatever it parses to.
handle_stats_update_unchecked(t, file_content) ==
  /\ pc[t] = "idle"
  /\ started < MaxRefreshes
  /\ started' = started + 1
  /\ stats_backup' = create_stats_backup
  /\ stats_file' = file_content
  /\ pc' = [pc EXCEPT ![t] = "parse"]
  /\ UNCHANGED <<STATS_CACHE, l_parsed>>

\* handle_stats_update: the uploaded text is parsed first and rejected with
\* ValueError when it parses to nothing; otherwise the file is copied to a
\* backup, replaced, and the cache is refreshed.
handle_stats_update(t, file_content) ==
  /\ pc[t] = "idle"
  /\ started < MaxRefreshes
  /\ started' = started + 1
  /\ IF NothingParsed(parse_stats_data_sync(file_content))
     THEN /\ pc' = [pc EXCEPT ![t] = AnswerAfterRaise]
          /\ UNCHANGED <<stats_file, stats_backup>>
     ELSE /\ stats_backup' = create_stats_backup
          /\ stats_file' = file_content
          /\ pc' = [pc EXCEPT ![t] = "parse"]
  /\ UNCHANGED <<STATS_CACHE, l_parsed>>

\* handle_stats_restore: the downloaded file replaces STATS_FILE unchecked,
\* then initialize_bot_data refreshes the cache.
handle_stats_restore(t, file_content) ==
  /\ pc[t] = "idle"
  /\ started < MaxRefreshes
  /\ started' = started + 1
  /\ stats_file' = file_content
  /\ pc' = [pc EXCEPT ![t] = "parse"]
  /\ UNCHANGED <<STATS_CACHE, l_parsed>>

\* ------------------------------------------------------------------------
\* update_stats_cache: one action per stretch of code between two awaits.
\* The stretch that ends the coroutine runs on into the caller, up to the
\* caller's answer.
\* ------------------------------------------------------------------------
\* The worker thread of parse_stats_data reads STATS_FILE.
ParseThread(t) ==
  /\ pc[t] = "parse"
  /\ l_parsed' = [l_parsed EXCEPT ![t] = parse_stats_data_sync(stats_file)]
  /\ pc' = [pc EXCEPT ![t] = "parsed"]
  /\ UNCHANGED <<stats_file, STATS_CACHE, started>>

\* Variant: the abort on an empty parse is missing.
AfterParse_noAbort(t) ==
  /\ pc[t] = "parsed"
  /\ STATS_CACHE' = Put(Put(STATS_CACHE, "summary", l_parsed[t].summary),
                        "trades", l_parsed[t].trades)
  /\ pc' = [pc EXCEPT ![t] = "streaks"]
  /\ UNCHANGED <<stats_file, l_parsed, started>>

\* Variant: summary and trades are stored before the emptiness test.
AfterParse_storeFirst(t) ==
  /\ pc[t] = "parsed"
  /\ STATS_CACHE' = Put(Put(STATS_CACHE, "summary", l_parsed[t].summary),
                        "trades", l_parsed[t].trades)
  /\ pc' = [pc EXCEPT ![t] = IF NothingParsed(l_parsed[t])
                             THEN AnswerAfterReturn(ReturnValue(FALSE)) ELSE "streaks"]
  /\ UNCHANGED <<stats_file, l_parsed, started>>

\* Variant: the trade list is stored with setdefault, so a cached list stays.
AfterParse_keepTrades(t) ==
  /\ pc[t] = "parsed"
  /\ IF NothingParsed(l_parsed[t])
     THEN /\ pc' = [pc EXCEPT ![t] = AnswerAfterReturn(ReturnValue(FALSE))]
          /\ UNCHANGED STATS_CACHE
     ELSE /\ STATS_CACHE' = Put(Put(STATS_CACHE, "summary", l_parsed[t].summary),
                                "trades", Get("trades", l_parsed[t].trades))
          /\ pc' = [pc EXCEPT ![t] = "streaks"]
  /\ UNCHANGED <<stats_file, l_parsed, started>>

\* Lines 527-535: the abort on an empty parse, else summary and trades are
\* stored and the streak computation is awaited.
AfterParse(t) ==
  /\ pc[t] = "parsed"
  /\ IF NothingParsed(l_parsed[t])
     THEN /\ pc' = [pc EXCEPT ![t] = AnswerAfterReturn(ReturnValue(FALSE))]
          /\ UNCHANGED STATS_CACHE
     ELSE /\ STATS_CACHE' = Put(Put(STATS_CACHE, "summary", l_parsed[t].summary),
                                "trades", l_parsed[t].trades)
          /\ pc' = [pc EXCEPT ![t] = "streaks"]
  /\ UNCHANGED <<stats_file, l_parsed, started>>

\* Lines 535-538.
AfterStreaks(t) ==
  /\ pc[t] = "streaks"
  /\ STATS_CACHE' = Put(STATS_CACHE, "streaks", calculate_streaks_sync(l_parsed[t].trades))
  /\ pc' = [pc EXCEPT ![t] = "pnl_chart"]
  /\ UNCHANGED <<stats_file, l_parsed, started>>

\* Lines 538-540: plot_pnl_chart raises for a trade list without a completed
\* dated trade, and the exception leaves update_stats_cache.
AfterPnlChart(t) ==
  /\ pc[t] = "pnl_chart"
  /\ IF PlotPnlRaises(l_parsed[t].trades)
     THEN /\ pc' = [pc EXCEPT ![t] = AnswerAfterRaise]
          /\ UNCHANGED STATS_CACHE
     ELSE /\ STATS_CACHE' = Put(Put(STATS_CACHE, "pnl_chart_html", plot_pnl_chart(l_parsed[t].trades)),
                                "pnl_chart_png", plot_pnl_chart(l_parsed[t].trades))
          /\ pc' = [pc EXCEPT ![t] = "summary_chart"]
  /\ UNCHANGED <<stats_file, l_parsed, started>>

\* Lines 540-542.
AfterSummaryChart(t) ==
  /\ pc[t] = "summary_chart"
  /\ STATS_CACHE' = Put(STATS_CACHE, "summary_chart_png", plot_summary_chart(l_parsed[t].summary))
  /\ pc' = [pc EXCEPT ![t] = "sim_compound"]
  /\ UNCHANGED <<stats_file, l_parsed, started>>

\* calculate_simulation(trades, sim_type, 1000.0, 3.0, 35.0)
SimResults(trades, sim_type) ==
  calculate_simulation(trades, sim_type, RefBalance, RefRisk, RefLeverage)

\* Lines 542-545.
AfterSimCompound(t) ==
  /\ pc[t] = "sim_compound"
  /\ STATS_CACHE' = Put(STATS_CACHE, "sim_compound_results", SimResults(l_parsed[t].trades, "compound"))
  /\ pc' = [pc EXCEPT ![t] = "sim_compound_chart"]
  /\ UNCHANGED <<stats_file, l_parsed, started>>

\* Lines 545-548.
AfterSimCompoundChart(t) ==
  /\ pc[t] = "sim_compound_chart"
  /\ LET chart == plot_simulation_chart(SimResults(l_parsed[t].trades, "compound").history)
     IN STATS_CACHE' = Put(Put(STATS_CACHE, "sim_compound_chart_html", chart),
                           "sim_compound_chart_png", chart)
  /\ pc' = [pc EXCEPT ![t] = "sim_simple"]
  /\ UNCHANGED <<stats_file, l_parsed, started>>

\* Lines 548-551.
AfterSimSimple(t) ==
  /\ pc[t] = "sim_simple"
  /\ STATS_CACHE' = Put(STATS_CACHE, "sim_simple_results", SimResults(l_parsed[t].trades, "simple"))
  /\ pc' = [pc EXCEPT ![t] = "sim_simple_chart"]
  /\ UNCHANGED <<stats_file, l_parsed, started>>

\* Lines 551-554 and the caller's answer.
AfterSimSimpleChart(t) ==
  /\ pc[t] = "sim_simple_chart"
  /\ LET chart == plot_simulation_chart(SimResults(l_parsed[t].trades, "simple").history)
     IN STATS_CACHE' = Put(Put(STATS_CACHE, "sim_simple_chart_html", chart),
                           "sim_simple_chart_png", chart)
  /\ pc' = [pc EXCEPT ![t] = AnswerAfterReturn(ReturnValue(TRUE))]
  /\ UNCHANGED <<stats_file, l_parsed, started>>

\* The handler task ends; a later update starts a new one.
Finish(t) ==
  /\ pc[t] \in {"success", "error"}
  /\ pc' = [pc EXCEPT ![t] = "idle"]
  /\ l_parsed' = [l_parsed EXCEPT ![t] = EmptyParse]
  /\ UNCHANGED <<stats_file, STATS_CACHE, started>>

Next ==
  \/ \E t \in Tasks : cq_refresh_cache(t) /\ UNCHANGED <<parserVars, aggVars, sim_runs, recVars>>
  \/ \E t \in Tasks : \E d \in Ledgers : handle_stats_update(t, d) /\ UNCHANGED <<parserVars, aggVars, sim_runs, dialogVars>>
  \/ \E t \in Tasks : \E d \in Ledgers : handle_stats_restore(t, d) /\ UNCHANGED <<parserVars, aggVars, sim_runs, recVars>>
  \/ \E t \in Tasks : ParseThread(t) /\ UNCHANGED <<parserVars, aggVars, sim_runs, recVars>>
  \/ \E t \in Tasks : AfterParse(t) /\ UNCHANGED <<parserVars, aggVars, sim_runs, recVars>>
  \/ \E t \in Tasks : AfterStreaks(t) /\ UNCHANGED <<parserVars, aggVars, sim_runs, recVars>>
  \/ \E t \in Tasks : AfterPnlChart(t) /\ UNCHANGED <<parserVars, aggVars, sim_runs, recVars>>
  \/ \E t \in Tasks : AfterSummaryChart(t) /\ UNCHANGED <<parserVars, aggVars, sim_runs, recVars>>
  \/ \E t \in Tasks : AfterSimCompound(t) /\ UNCHANGED <<parserVars, aggVars, sim_runs, recVars>>
  \/ \E t \in Tasks : AfterSimCompoundChart(t) /\ UNCHANGED <<parserVars, aggVars, sim_runs, recVars>>
  \/ \E t \in Tasks : AfterSimSimple(t) /\ UNCHANGED <<parserVars, aggVars, sim_runs, recVars>>
  \/ \E t \in Tasks : AfterSimSimpleChart(t) /\ UNCHANGED <<parserVars, aggVars, sim_runs, recVars>>
  \/ \E t \in Tasks : Finish(t) /\ UNCHANGED <<parserVars, aggVars, sim_runs, recVars>>

Spec == Init /\ [][Next]_vars

\* ------------------------------------------------------------------------
\* Parser harness: parse_stats_data_sync applied to a bounded set of texts
\* ------------------------------------------------------------------------
MaxRawLines == 4

MaxSegs == 2

RawAlphabet ==
  {SepLine, BlankLine, Hdr("BTC", "long"), KV(K_DATE, "01.01.2025"), KV(K_PNL, "5.00%")}

RECURSIVE SeqsUpTo(_, _)
SeqsUpTo(S, n) ==
  IF n = 0 THEN {<<>>}
  ELSE LET shorter == SeqsUpTo(S, n - 1)
       IN shorter \cup {Append(q, x) : q \in {r \in shorter : Len(r) = n - 1}, x \in S}

\* Every text of at most MaxRawLines lines over RawAlphabet.
RawDocs == SeqsUpTo(RawAlphabet, MaxRawLines)

\* A hand-written trade segment: gap blank lines, then a title line (or none),
\* then the field lines of one trade, then a date line (or none).
SegTitles == {<<Hdr("BTC", "long")>>, <<Hdr("BTC/USDT", "short")>>, <<>>}

SegBodies ==
  {<<KV(K_PNL, "5.00%"), KV(K_ENTRY, "100"), KV(K_EXITS, "105 (100%)")>>,
   <<KV(K_ENTRY, "100"), KV(K_EXITS, "V otrabotke")>>}

SegDates ==
  {<<KV(K_DATE, "01.01.2025")>>, <<KV(K_DATE, "02.01.25")>>, <<KV(K_DATE, "32.13.2025")>>, <<>>}

SegGaps == {<<>>, <<BlankLine>>}

Segments ==
  {gap \o title \o body \o date :
     gap \in SegGaps, title \in SegTitles, body \in SegBodies, date \in SegDates}

RECURSIVE Flatten(_)
Flatten(ss) == IF ss = <<>> THEN <<>> ELSE Head(ss) \o Flatten(Tail(ss))

GoodHeader == HeaderBlock("5.00%", "100.00%", "1", "1", "0", "0", "0", "01.01.25", "01.01.25")

\* The header with its winrate line missing: the grammar does not match.
BadHeader == <<KV(K_PNL, "5.00%"), KV(K_TOTAL, "1"), Dash(K_START, "01.01.25"), BlankLine>>

\* Ledgers with both separators and up to MaxSegs segments.
SegmentDocs ==
  {<<SepLine>> \o header \o <<SepLine>> \o Flatten(segs) :
     header \in {GoodHeader, BadHeader}, segs \in SeqsUpTo(Segments, MaxSegs)}

\* Texts whose second separator is missing.
TruncatedDocs ==
  {<<SepLine>> \o header \o Flatten(segs) :
     header \in {GoodHeader, BadHeader}, segs \in SeqsUpTo(Segments, 1)}

\* The field lines of one trade: no pnl line, a pnl text float() rejects, a pnl
\* line next to the in-progress phrase.
FieldBodies ==
  {<<KV(K_ENTRY, "100"), KV(K_EXITS, "105 (100%)")>>,
   <<KV(K_PNL, "abc"), KV(K_EXITS, "105 (100%)")>>,
   <<KV(K_PNL, "-3.00%"), KV(K_EXITS, "v otrabotke 50%")>>}

\* Ledgers with one dated trade over FieldBodies.
FieldDocs ==
  {<<SepLine>> \o GoodHeader \o <<SepLine, BlankLine, Hdr("ETH", "short")>> \o body
     \o <<KV(K_DATE, "01.01.2025")>> : body \in FieldBodies}

ParserInputs == RawDocs \cup SegmentDocs \cup TruncatedDocs \cup FieldDocs

InitParse ==
  /\ content \in ParserInputs
  /\ called = FALSE
  /\ result = EmptyParse
  /\ stats_file = LedgerA
  /\ STATS_CACHE = EmptyDict
  /\ pc = [t \in Tasks |-> "idle"]
  /\ l_parsed = [t \in Tasks |-> EmptyParse]
  /\ started = 0
  /\ a_trades = <<>>
  /\ a_params = RefParams("compound")
  /\ a_pc = "start"
  /\ a_out = EmptyDict
  /\ sim_runs = <<>>
  /\ stats_backup = NoBackup
  /\ report = NoReport
  /\ fsm_state = "None"
  /\ fsm_data = EmptyDict
  /\ l_trade_text = [t \in Tasks |-> <<>>]
  /\ calc_answer = NoAnswer
  /\ NoCustomDialogue
  /\ NoBroadcast

\* _parse_stats_data_sync(content)
CallParse ==
  /\ ~called
  /\ result' = parse_stats_data_sync(content)
  /\ called' = TRUE
  /\ UNCHANGED content

NextParse == CallParse /\ UNCHANGED <<cacheVars, aggVars, sim_runs, recVars>>

SpecParse == InitParse /\ [][NextParse]_vars

\* ------------------------------------------------------------------------
\* Aggregation harness: _calculate_streaks_sync, plot_pnl_chart,
\* calculate_simulation and the counts of cq_check_stats applied to the
\* trade lists the parser returns for a bounded set of ledgers
\* ------------------------------------------------------------------------
MaxTrades == 3

AggFields ==
  {<<KV(K_PNL, "5.00%")>>, <<KV(K_PNL, "-3.00%")>>, <<KV(K_PNL, "0.00%")>>,
   <<KV(K_EXITS, "V otrabotke")>>}

AggDates == {<<KV(K_DATE, "01.01.2025")>>, <<KV(K_DATE, "02.01.25")>>, <<>>}

AggSegments ==
  {<<BlankLine, Hdr("BTC", "long")>> \o fields \o date : fields \in AggFields, date \in AggDates}

AggLedger(segs) == <<SepLine>> \o GoodHeader \o <<SepLine>> \o Flatten(segs)

Seg(pnl, date) == <<BlankLine, Hdr("ETH", "short"), KV(K_PNL, pnl), KV(K_DATE, date)>>

\* A ledger (newest trade first) whose trades have, in chronological order,
\* the pnl signs + + - 0 + + +.
SignSampleLedger ==
  AggLedger(<<Seg("5.00%", "03.01.2025"), Seg("2.50%", "03.01.2025"), Seg("5.00%", "02.01.2025"),
              Seg("0.00%", "02.01.2025"), Seg("-3.00%", "01.01.2025"), Seg("5.00%", "01.01.2025"),
              Seg("2.50%", "01.01.2025")>>)

SignSample == parse_stats_data_sync(SignSampleLedger).trades

TradeLists ==
  {parse_stats_data_sync(AggLedger(segs)).trades : segs \in SeqsUpTo(AggSegments, MaxTrades)}
    \cup {SignSample}

\* The reference parameters and a set a user enters (500.00, 10 %, x2).
AggParams ==
  {RefParams(sim_type) : sim_type \in {"compound", "simple"}}
    \cup {[sim_type |-> sim_type, initial_balance |-> 50000, risk_percent |-> 10, leverage |-> 2] :
            sim_type \in {"compound", "simple"}}

InitAgg ==
  /\ a_trades \in TradeLists
  /\ a_params \in AggParams
  /\ a_pc = "start"
  /\ a_out = EmptyDict
  /\ sim_runs = <<>>
  /\ stats_backup = NoBackup
  /\ report = NoReport
  /\ fsm_state = "None"
  /\ fsm_data = EmptyDict
  /\ l_trade_text = [t \in Tasks |-> <<>>]
  /\ calc_answer = NoAnswer
  /\ NoCustomDialogue
  /\ NoBroadcast
  /\ content = <<>>
  /\ called = FALSE
  /\ result = EmptyParse
  /\ stats_file = LedgerA
  /\ STATS_CACHE = EmptyDict
  /\ pc = [t \in Tasks |-> "idle"]
  /\ l_parsed = [t \in Tasks |-> EmptyParse]
  /\ started = 0

\* _calculate_streaks_sync(trades), with the sequence its loop runs over.
AggStreaks ==
  /\ a_pc = "start"
  /\ a_out' = Put(Put(Put(a_out, "streaks", calculate_streaks_sync(a_trades)),
                      "streaks_order", IF a_trades = <<>> THEN <<>> ELSE ChronoTrades(a_trades)),
                  "streaks_trace", IF a_trades = <<>> THEN <<>> ELSE StreakTrace(ChronoTrades(a_trades)))
  /\ a_pc' = "streaks"
  /\ UNCHANGED <<a_trades, a_params>>

\* plot_pnl_chart(trades), with the sequence of its data frame.
AggPnlChart ==
  /\ a_pc = "streaks"
  /\ a_out' = Put(Put(a_out, "pnl_chart",
                      [raised |-> PlotPnlRaises(a_trades),
                       series |-> IF PlotPnlRaises(a_trades) THEN <<>> ELSE plot_pnl_chart(a_trades)]),
                  "pnl_order", PnlChronoTrades(a_trades))
  /\ a_pc' = "pnl_chart"
  /\ UNCHANGED <<a_trades, a_params>>

\* calculate_simulation(trades, sim_type, initial_balance, risk_percent,
\* leverage), with the sequence its loop runs over.
AggSimulation ==
  /\ a_pc = "pnl_chart"
  /\ a_out' = Put(Put(a_out, "sim",
                      calculate_simulation(a_trades, a_params.sim_type, a_params.initial_balance,
                                           a_params.risk_percent, a_params.leverage)),
                  "sim_order", SimChronoTrades(a_trades))
  /\ a_pc' = "simulation"
  /\ UNCHANGED <<a_trades, a_params>>

\* The counts of cq_check_stats; the handler returns early on an empty list.
AggCheckStats ==
  /\ a_pc = "simulation"
  /\ a_out' = IF a_trades = <<>> THEN a_out
              ELSE Put(Put(a_out, "counts", cq_check_stats_counts(a_trades)),
                       "values", cq_check_stats_values(a_trades))
  /\ a_pc' = "done"
  /\ UNCHANGED <<a_trades, a_params>>

NextAgg ==
  \/ AggStreaks /\ UNCHANGED <<cacheVars, parserVars, sim_runs, recVars>>
  \/ AggPnlChart /\ UNCHANGED <<cacheVars, parserVars, sim_runs, recVars>>
  \/ AggSimulation /\ UNCHANGED <<cacheVars, parserVars, sim_runs, recVars>>
  \/ AggCheckStats /\ UNCHANGED <<cacheVars, parserVars, sim_runs, recVars>>

SpecAgg == InitAgg /\ [][NextAgg]_vars

\* ------------------------------------------------------------------------
\* Custom simulation runs next to the cache refreshes
\* ------------------------------------------------------------------------
MaxRuns == 2

\* cq_custom_sim_run up to the call of calculate_simulation: the trade list
\* is taken from the cache, the parameters from the dialogue.
cq_custom_sim_run(sim_type) ==
  /\ Len(sim_runs) < MaxRuns
  /\ sim_runs' = Append(sim_runs, [trades |-> Get("trades", <<>>),
                                    params |-> [a_params EXCEPT !.sim_type = sim_type],
                                    done |-> FALSE, results |-> EmptyDict])
  /\ UNCHANGED <<cacheVars, parserVars, aggVars, recVars>>

\* Variant: the worker takes the trade list from the cache when it runs.
SimulationThread_cacheTrades(i) ==
  /\ i \in DOMAIN sim_runs
  /\ ~sim_runs[i].done
  /\ sim_runs' = [sim_runs EXCEPT ![i].done = TRUE,
                                  ![i].results =
                                    calculate_simulation(Get("trades", <<>>), sim_runs[i].params.sim_type,
                                                         sim_runs[i].params.initial_balance,
                                                         sim_runs[i].params.risk_percent,
                                                         sim_runs[i].params.leverage)]
  /\ UNCHANGED <<cacheVars, parserVars, aggVars, recVars>>

\* The worker thread of calculate_simulation, run on the arguments of the call.
SimulationThread(i) ==
  /\ i \in DOMAIN sim_runs
  /\ ~sim_runs[i].done
  /\ sim_runs' = [sim_runs EXCEPT ![i].done = TRUE,
                                  ![i].results =
                                    calculate_simulation(sim_runs[i].trades, sim_runs[i].params.sim_type,
                                                         sim_runs[i].params.initial_balance,
                                                         sim_runs[i].params.risk_percent,
                                                         sim_runs[i].params.leverage)]
  /\ UNCHANGED <<cacheVars, parserVars, aggVars, recVars>>

\* The file holds LedgerB; the dialogue has collected the reference
\* parameters or the parameters 500.00, 10 %, x2, and a simulation type.
InitSim ==
  /\ stats_file = LedgerB
  /\ STATS_CACHE = EmptyDict
  /\ pc = [t \in Tasks |-> "idle"]
  /\ l_parsed = [t \in Tasks |-> EmptyParse]
  /\ started = 0
  /\ content = <<>>
  /\ called = FALSE
  /\ result = EmptyParse
  /\ a_trades = <<>>
  /\ a_params \in {RefParams("compound"),
                   [sim_type |-> "simple", initial_balance |-> 50000, risk_percent |-> 10, leverage |-> 2]}
  /\ a_pc = "start"
  /\ a_out = EmptyDict
  /\ sim_runs = <<>>
  /\ stats_backup = NoBackup
  /\ report = NoReport
  /\ fsm_state = "None"
  /\ fsm_data = EmptyDict
  /\ l_trade_text = [t \in Tasks |-> <<>>]
  /\ calc_answer = NoAnswer
  /\ NoCustomDialogue
  /\ NoBroadcast

\* The refreshes (started by cq_refresh_cache or by an upload of LedgerA)
\* and the custom simulation runs.
NextSim ==
  \/ \E t \in Tasks : cq_refresh_cache(t) /\ UNCHANGED <<parserVars, aggVars, sim_runs, recVars>>
  \/ \E t \in Tasks : handle_stats_update(t, LedgerA) /\ UNCHANGED <<parserVars, aggVars, sim_runs, dialogVars>>
  \/ \E t \in Tasks : ParseThread(t) /\ UNCHANGED <<parserVars, aggVars, sim_runs, recVars>>
  \/ \E t \in Tasks : AfterParse(t) /\ UNCHANGED <<parserVars, aggVars, sim_runs, recVars>>
  \/ \E t \in Tasks : AfterStreaks(t) /\ UNCHANGED <<parserVars, aggVars, sim_runs, recVars>>
  \/ \E t \in Tasks : AfterPnlChart(t) /\ UNCHANGED <<parserVars, aggVars, sim_runs, recVars>>
  \/ \E t \in Tasks : AfterSummaryChart(t) /\ UNCHANGED <<parserVars, aggVars, sim_runs, recVars>>
  \/ \E t \in Tasks : AfterSimCompound(t) /\ UNCHANGED <<parserVars, aggVars, sim_runs, recVars>>
  \/ \E t \in Tasks : AfterSimCompoundChart(t) /\ UNCHANGED <<parserVars, aggVars, sim_runs, recVars>>
  \/ \E t \in Tasks : AfterSimSimple(t) /\ UNCHANGED <<parserVars, aggVars, sim_runs, recVars>>
  \/ \E t \in Tasks : AfterSimSimpleChart(t) /\ UNCHANGED <<parserVars, aggVars, sim_runs, recVars>>
  \/ \E t \in Tasks : Finish(t) /\ UNCHANGED <<parserVars, aggVars, sim_runs, recVars>>
  \/ cq_custom_sim_run(a_params.sim_type)
  \/ \E i \in 1..MaxRuns : SimulationThread(i)

SpecSim == InitSim /\ [][NextSim]_vars

\* ------------------------------------------------------------------------
\* The reconciler: cq_check_stats, cq_confirm_stats_rewrite and
\* auto_rewrite_stats_header next to the cache refreshes
\* ------------------------------------------------------------------------
\* The dates datetime.now() returns while the handlers run.
Days == {3, 4}

\* cq_check_stats up to the call of parse_stats_data.
cq_check_stats(t) ==
  /\ pc[t] = "idle"
  /\ started < MaxRefreshes
  /\ started' = started + 1
  /\ pc' = [pc EXCEPT ![t] = "check_parse"]
  /\ UNCHANGED <<stats_file, STATS_CACHE, l_parsed, stats_backup, report>>

\* The worker thread of parse_stats_data, called by cq_check_stats.
CheckParseThread(t) ==
  /\ pc[t] = "check_parse"
  /\ l_parsed' = [l_parsed EXCEPT ![t] = parse_stats_data_sync(stats_file)]
  /\ pc' = [pc EXCEPT ![t] = "check_parsed"]
  /\ UNCHANGED <<stats_file, STATS_CACHE, started, stats_backup, report>>

\* Variant: a check that found discrepancies rewrites the header itself.
CheckAfterParse_rewrites(t) ==
  /\ pc[t] = "check_parsed"
  /\ report' = CheckReport(l_parsed[t])
  /\ pc' = [pc EXCEPT ![t] = "idle"]
  /\ l_parsed' = [l_parsed EXCEPT ![t] = EmptyParse]
  /\ IF CheckReport(l_parsed[t]).kind = "discrepancies"
     THEN /\ stats_backup' = create_stats_backup
          /\ stats_file' = RewriteHeader(stats_file,
                             new_header_content(l_parsed[t].summary,
                                                auto_rewrite_values(l_parsed[t].trades, 3)))
     ELSE UNCHANGED <<stats_file, stats_backup>>
  /\ UNCHANGED <<STATS_CACHE, started>>

\* cq_check_stats after the parse (lines 1759-1813): the answer is sent and
\* the handler ends.
CheckAfterParse(t) ==
  /\ pc[t] = "check_parsed"
  /\ report' = CheckReport(l_parsed[t])
  /\ pc' = [pc EXCEPT ![t] = "idle"]
  /\ l_parsed' = [l_parsed EXCEPT ![t] = EmptyParse]
  /\ UNCHANGED <<stats_file, STATS_CACHE, started, stats_backup>>

\* cq_confirm_stats_rewrite up to the parse of auto_rewrite_stats_header.  The
\* button that sends "confirm_stats_rewrite" stays in the chat, so the
\* callback can arrive at any time.
cq_confirm_stats_rewrite(t) ==
  /\ pc[t] = "idle"
  /\ started < MaxRefreshes
  /\ started' = started + 1
  /\ pc' = [pc EXCEPT ![t] = "rewrite_parse"]
  /\ UNCHANGED <<stats_file, STATS_CACHE, l_parsed, stats_backup, report>>

\* The worker thread of parse_stats_data, called by auto_rewrite_stats_header.
RewriteParseThread(t) ==
  /\ pc[t] = "rewrite_parse"
  /\ l_parsed' = [l_parsed EXCEPT ![t] = parse_stats_data_sync(stats_file)]
  /\ pc' = [pc EXCEPT ![t] = "rewrite_parsed"]
  /\ UNCHANGED <<stats_file, STATS_CACHE, started, stats_backup, report>>

\* auto_rewrite_stats_header after the parse (lines 1817-1860): without trades
\* an error is answered; else the header is built from the parsed trades, the
\* file is read again, copied to a backup and written, and update_stats_cache
\* is called.
RewriteAfterParse(t, now) ==
  /\ pc[t] = "rewrite_parsed"
  /\ IF l_parsed[t].trades = <<>>
     THEN /\ pc' = [pc EXCEPT ![t] = "error"]
          /\ UNCHANGED <<stats_file, stats_backup>>
     ELSE /\ stats_backup' = create_stats_backup
          /\ stats_file' = RewriteHeader(stats_file,
                             new_header_content(l_parsed[t].summary,
                                                auto_rewrite_values(l_parsed[t].trades, now)))
          /\ pc' = [pc EXCEPT ![t] = "parse"]
  /\ UNCHANGED <<STATS_CACHE, l_parsed, started, report>>

\* The ledgers the reconciler is run on.
\* The header gives the date of the last update with a four-digit year.
LedgerY4 ==
  <<SepLine>> \o HeaderBlock("5.00%", "100.00%", "1", "1", "0", "0", "0", "01.01.25", "01.01.2025")
    \o <<SepLine, BlankLine,
         Hdr("BTC", "long"), KV(K_PNL, "5.00%"), KV(K_ENTRY, "100"), KV(K_MARGIN, "X1"),
         KV(K_EXITS, "105 (100%)"), KV(K_DATE, "01.01.2025")>>

\* The only trade is dated 1 January 2125.
LedgerFar ==
  <<SepLine>> \o HeaderBlock("5.00%", "100.00%", "1", "1", "0", "0", "0", "01.01.25", "02.01.25")
    \o <<SepLine, BlankLine,
         Hdr("BTC", "long"), KV(K_PNL, "5.00%"), KV(K_ENTRY, "100"), KV(K_MARGIN, "X1"),
         KV(K_EXITS, "105 (100%)"), KV(K_DATE, "01.01.2125")>>

\* Two winning trades and a losing one: the win rate is two thirds, which the
\* header rounds; the total of the header is 0.50 too high.
LedgerThirds ==
  <<SepLine>> \o HeaderBlock("5.00%", "66.67%", "3", "2", "1", "0", "0", "01.01.25", "03.01.25")
    \o <<SepLine, BlankLine,
         Hdr("ETH", "long"), KV(K_PNL, "2.50%"), KV(K_DATE, "03.01.2025"), BlankLine,
         Hdr("ETH", "short"), KV(K_PNL, "-3.00%"), KV(K_DATE, "02.01.2025"), BlankLine,
         Hdr("BTC", "long"), KV(K_PNL, "5.00%"), KV(K_DATE, "01.01.2025")>>

\* Text before the first marker, a note behind the first marker and a note in
\* front of the second one; the header counts no trade.
LedgerNoted ==
  <<TextLine, SepWith("", " v2")>>
    \o HeaderBlock("0.00%", "0.00%", "0", "0", "0", "0", "0", "01.01.25", "01.01.25")
    \o <<SepWith(" v2", ""), BlankLine,
         Hdr("ETH", "short"), KV(K_PNL, "-3.00%"), KV(K_DATE, "02.01.2025"), BlankLine,
         Hdr("BTC", "long"), KV(K_EXITS, "V otrabotke"), KV(K_DATE, "01.01.2025")>>

\* The only trade has no date line.
LedgerUndated ==
  <<SepLine>> \o HeaderBlock("5.00%", "100.00%", "1", "1", "0", "0", "0", "01.01.25", "01.01.25")
    \o <<SepLine, BlankLine, Hdr("BTC", "long"), KV(K_PNL, "5.00%")>>

RecLedgers ==
  {LedgerA, LedgerB, LedgerOpen, LedgerY4, LedgerFar, LedgerThirds, LedgerNoted, LedgerUndated,
   LedgerNoHeader}

InitRec ==
  /\ stats_file \in RecLedgers
  /\ STATS_CACHE = EmptyDict
  /\ pc = [t \in Tasks |-> "idle"]
  /\ l_parsed = [t \in Tasks |-> EmptyParse]
  /\ started = 0
  /\ content = <<>>
  /\ called = FALSE
  /\ result = EmptyParse
  /\ a_trades = <<>>
  /\ a_params = RefParams("compound")
  /\ a_pc = "start"
  /\ a_out = EmptyDict
  /\ sim_runs = <<>>
  /\ stats_backup = NoBackup
  /\ report = NoReport
  /\ fsm_state = "None"
  /\ fsm_data = EmptyDict
  /\ l_trade_text = [t \in Tasks |-> <<>>]
  /\ calc_answer = NoAnswer
  /\ NoCustomDialogue
  /\ NoBroadcast

recFrame ==
  <<parserVars, aggVars, sim_runs, fsm_state, fsm_data, l_trade_text, calc_answer, customVars,
    broadcastVars>>

NextRec ==
  \/ \E t \in Tasks : cq_check_stats(t) /\ UNCHANGED recFrame
  \/ \E t \in Tasks : CheckParseThread(t) /\ UNCHANGED recFrame
  \/ \E t \in Tasks : CheckAfterParse(t) /\ UNCHANGED recFrame
  \/ \E t \in Tasks : cq_confirm_stats_rewrite(t) /\ UNCHANGED recFrame
  \/ \E t \in Tasks : RewriteParseThread(t) /\ UNCHANGED recFrame
  \/ \E t \in Tasks : \E now \in Days : RewriteAfterParse(t, now) /\ UNCHANGED recFrame
  \/ \E t \in Tasks : ParseThread(t) /\ UNCHANGED <<parserVars, aggVars, sim_runs, recVars>>
  \/ \E t \in Tasks : AfterParse(t) /\ UNCHANGED <<parserVars, aggVars, sim_runs, recVars>>
  \/ \E t \in Tasks : AfterStreaks(t) /\ UNCHANGED <<parserVars, aggVars, sim_runs, recVars>>
  \/ \E t \in Tasks : AfterPnlChart(t) /\ UNCHANGED <<parserVars, aggVars, sim_runs, recVars>>
  \/ \E t \in Tasks : AfterSummaryChart(t) /\ UNCHANGED <<parserVars, aggVars, sim_runs, recVars>>
  \/ \E t \in Tasks : AfterSimCompound(t) /\ UNCHANGED <<parserVars, aggVars, sim_runs, recVars>>
  \/ \E t \in Tasks : AfterSimCompoundChart(t) /\ UNCHANGED <<parserVars, aggVars, sim_runs, recVars>>
  \/ \E t \in Tasks : AfterSimSimple(t) /\ UNCHANGED <<parserVars, aggVars, sim_runs, recVars>>
  \/ \E t \in Tasks : AfterSimSimpleChart(t) /\ UNCHANGED <<parserVars, aggVars, sim_runs, recVars>>
  \/ \E t \in Tasks : Finish(t) /\ UNCHANGED <<parserVars, aggVars, sim_runs, recVars>>

SpecRec == InitRec /\ [][NextRec]_vars

\* ------------------------------------------------------------------------
\* The calculator dialogue and cq_add_trade_to_stats
\* Prices and the margin are in hundredths, the percentages of the exit legs
\* in hundredths of a percent.
\* ------------------------------------------------------------------------
\* message.text.upper()
UpperTable == [t \in {"eth", "ETH", "btc"} |-> IF t = "btc" THEN "BTC" ELSE "ETH"]

\* The messages the administrator sends as entry price: float(text) and the
\* str() of that float; ok is FALSE where float() raises or the value is not
\* positive.
EntryInputs ==
  {[text |-> "100", ok |-> TRUE, value |-> 10000, repr |-> "100.0"],
   [text |-> "200,0", ok |-> TRUE, value |-> 20000, repr |-> "200.0"],
   [text |-> "0", ok |-> FALSE, value |-> 0, repr |-> "0.0"]}

\* The messages sent as margin, after lower(), replace(',', '.') and
\* replace('x', '').
MarginInputs ==
  {[text |-> "x1", ok |-> TRUE, value |-> 100, repr |-> "1.0"],
   [text |-> "X2", ok |-> TRUE, value |-> 200, repr |-> "2.0"],
   [text |-> "abc", ok |-> FALSE, value |-> 0, repr |-> ""]}

\* The messages sent as exits: legs is what re.findall and float() make of the
\* text, bad is TRUE where float() raises ValueError.
ExitsInputs ==
  {[text |-> "105 (50%) 110 (50%)", bad |-> FALSE,
    legs |-> <<[price |-> 10500, percent |-> 5000], [price |-> 11000, percent |-> 5000]>>],
   [text |-> "105 (60%) 110 (50%)", bad |-> FALSE,
    legs |-> <<[price |-> 10500, percent |-> 6000], [price |-> 11000, percent |-> 5000]>>],
   [text |-> "100 (50%) 100 (50.1%)", bad |-> FALSE,
    legs |-> <<[price |-> 10000, percent |-> 5000], [price |-> 10000, percent |-> 5010]>>],
   [text |-> "100 (50%) 100 (50.2%)", bad |-> FALSE,
    legs |-> <<[price |-> 10000, percent |-> 5000], [price |-> 10000, percent |-> 5020]>>],
   [text |-> "105 (50%)", bad |-> FALSE,
    legs |-> <<[price |-> 10500, percent |-> 5000]>>],
   [text |-> "take profit", bad |-> FALSE, legs |-> <<>>],
   [text |-> "1.2.3 (50%)", bad |-> TRUE,
    legs |-> <<[price |-> 0, percent |-> 5000]>>]}

\* sum(p for _, p in exits)
RECURSIVE total_percent(_)
total_percent(exits) ==
  IF exits = <<>> THEN 0 ELSE Head(exits).percent + total_percent(Tail(exits))

\* net_movement (line 1693): the movement of each leg in hundredths of a
\* percent, weighted with the share of the leg.
RECURSIVE net_movement(_, _, _)
net_movement(exits, entry_price, direction) ==
  IF exits = <<>> THEN 0
  ELSE LET p == Head(exits).price
           move == IF direction = "long"
                   THEN ((p - entry_price) * 10000) \div entry_price
                   ELSE ((entry_price - p) * 10000) \div entry_price
       IN (move * Head(exits).percent) \div 10000
            + net_movement(Tail(exits), entry_price, direction)

\* if total_percent < 99.9: exits.append((entry_price, 100 - total_percent))
WithRest(exits, entry_price) ==
  IF total_percent(exits) < 9990
  THEN Append(exits, [price |-> entry_price, percent |-> 10000 - total_percent(exits)])
  ELSE exits

\* final_pnl = net_movement * margin
final_pnl(exits, data) ==
  (net_movement(WithRest(exits, data["entry"].value), data["entry"].value, data["direction"])
     * data["margin"].value) \div 100

\* result_text (lines 1696-1701), as lines; the last line has no line end.
result_text(data, exits_text, pnl, now) ==
  <<Hdr(data["ticker"], data["direction"]), BlankLine,
    KV(K_PNL, FormatPercent(pnl)), BlankLine,
    KV(K_ENTRY, data["entry"].repr), BlankLine,
    KV(K_MARGIN, "X" \o data["margin"].repr), BlankLine,
    KV(K_EXITS, exits_text), BlankLine,
    KV(K_DATE, StrftimeY4(now))>>

CalcData == IF Has(fsm_data, "calc_data") THEN fsm_data["calc_data"] ELSE EmptyDict

Answer(kind) == [kind |-> kind, total_percent |-> 0]

\* cq_calculate_movement_start
cq_calculate_movement_start ==
  /\ fsm_state' = "get_calc_ticker"
  /\ fsm_data' = Put(EmptyDict, "calc_data", EmptyDict)
  /\ calc_answer' = Answer("step_1")

\* process_calc_ticker
process_calc_ticker(text) ==
  /\ fsm_state = "get_calc_ticker"
  /\ fsm_data' = Put(fsm_data, "calc_data", Put(EmptyDict, "ticker", UpperTable[text]))
  /\ fsm_state' = "get_calc_entry"
  /\ calc_answer' = Answer("step_2")

\* process_calc_entry
process_calc_entry(inp) ==
  /\ fsm_state = "get_calc_entry"
  /\ IF inp.ok
     THEN /\ fsm_data' = Put(fsm_data, "calc_data", Put(CalcData, "entry", inp))
          /\ fsm_state' = "get_calc_margin"
          /\ calc_answer' = Answer("step_3")
     ELSE /\ calc_answer' = Answer("bad_entry")
          /\ UNCHANGED <<fsm_state, fsm_data>>

\* process_calc_margin
process_calc_margin(inp) ==
  /\ fsm_state = "get_calc_margin"
  /\ IF inp.ok
     THEN /\ fsm_data' = Put(fsm_data, "calc_data", Put(CalcData, "margin", inp))
          /\ fsm_state' = "get_calc_direction"
          /\ calc_answer' = Answer("step_4")
     ELSE /\ calc_answer' = Answer("bad_margin")
          /\ UNCHANGED <<fsm_state, fsm_data>>

\* process_calc_direction
process_calc_direction(direction) ==
  /\ fsm_state = "get_calc_direction"
  /\ fsm_data' = Put(fsm_data, "calc_data", Put(CalcData, "direction", direction))
  /\ fsm_state' = "get_calc_exits"
  /\ calc_answer' = Answer("step_5")

\* Variant: legs of more than 100 percent in total are accepted as entered.
process_calc_exits_unchecked(inp, now) ==
  /\ fsm_state = "get_calc_exits"
  /\ IF inp.legs = <<>>
     THEN /\ calc_answer' = Answer("no_exits")
          /\ UNCHANGED <<fsm_state, fsm_data>>
     ELSE IF inp.bad
     THEN /\ calc_answer' = Answer("bad_number")
          /\ fsm_state' = "None"
          /\ fsm_data' = EmptyDict
     ELSE /\ fsm_data' = Put(fsm_data, "final_trade_text",
                             result_text(CalcData, inp.text, final_pnl(inp.legs, CalcData), now))
          /\ fsm_state' = "confirm_add_trade_to_stats"
          /\ calc_answer' = Answer("result")

\* process_calc_exits
process_calc_exits(inp, now) ==
  /\ fsm_state = "get_calc_exits"
  /\ IF inp.legs = <<>>
     THEN /\ calc_answer' = Answer("no_exits")
          /\ UNCHANGED <<fsm_state, fsm_data>>
     ELSE IF inp.bad
     THEN /\ calc_answer' = Answer("bad_number")
          /\ fsm_state' = "None"
          /\ fsm_data' = EmptyDict
     ELSE IF total_percent(inp.legs) > 10010
     THEN /\ calc_answer' = [kind |-> "over_100", total_percent |-> total_percent(inp.legs)]
          /\ UNCHANGED <<fsm_state, fsm_data>>
     ELSE /\ fsm_data' = Put(fsm_data, "final_trade_text",
                             result_text(CalcData, inp.text, final_pnl(inp.legs, CalcData), now))
          /\ fsm_state' = "confirm_add_trade_to_stats"
          /\ calc_answer' = Answer("result")

\* cq_add_trade_to_stats up to its first answer (lines 1718-1725): the trade
\* text is taken from the dialogue and the dialogue is cleared.
cq_add_trade_to_stats(t) ==
  /\ fsm_state = "confirm_add_trade_to_stats"
  /\ pc[t] = "idle"
  /\ started < MaxRefreshes
  /\ started' = started + 1
  /\ fsm_state' = "None"
  /\ fsm_data' = EmptyDict
  /\ IF Has(fsm_data, "final_trade_text")
     THEN /\ l_trade_text' = [l_trade_text EXCEPT ![t] = fsm_data["final_trade_text"]]
          /\ pc' = [pc EXCEPT ![t] = "add_write"]
     ELSE /\ pc' = [pc EXCEPT ![t] = "error"]
          /\ UNCHANGED l_trade_text
  /\ UNCHANGED <<stats_file, STATS_CACHE, l_parsed, stats_backup, report, calc_answer>>

\* The text of a line.
LineText(l) ==
  CASE l.k = "hdr" -> l.key \o " (" \o l.val \o ")"
    [] l.k = "kv" -> l.key \o ": " \o l.val
    [] l.k = "sep" -> l.key \o ": " \o l.val
    [] l.k = "dash" -> l.key \o " - " \o l.val
    [] OTHER -> l.val

\* lines.insert(sep_indices[1] + 1, f"\n\n\n{trade_text}") and writelines: three
\* empty lines, then the trade text.  Its last line has no line end, so the
\* line that followed the second separator runs on from it: an empty line
\* ends it, any other line is appended to the date.
InsertTrade(lines, trade_text) ==
  LET sep_indices == SepIndices(lines)
      head == SubSeq(lines, 1, sep_indices[2])
      rest == SubSeq(lines, sep_indices[2] + 1, Len(lines))
      last == trade_text[Len(trade_text)]
  IN head \o <<BlankLine, BlankLine, BlankLine>>
       \o (IF rest = <<>> \/ Head(rest).k = "blank"
           THEN trade_text
           ELSE SubSeq(trade_text, 1, Len(trade_text) - 1)
                  \o <<KV(last.key, last.val \o LineText(Head(rest)))>>)
       \o (IF rest = <<>> THEN <<>> ELSE Tail(rest))

\* cq_add_trade_to_stats, lines 1727-1746: the file is read, the trade text
\* inserted behind the second separator, the file copied to a backup and
\* written; then auto_rewrite_stats_header is called.
AddTradeWrite(t) ==
  /\ pc[t] = "add_write"
  /\ IF Len(SepIndices(stats_file)) < 2
     THEN /\ pc' = [pc EXCEPT ![t] = "error"]
          /\ UNCHANGED <<stats_file, stats_backup>>
     ELSE /\ stats_backup' = create_stats_backup
          /\ stats_file' = InsertTrade(stats_file, l_trade_text[t])
          /\ pc' = [pc EXCEPT ![t] = "rewrite_parse"]
  /\ l_trade_text' = [l_trade_text EXCEPT ![t] = <<>>]
  /\ UNCHANGED <<STATS_CACHE, l_parsed, started, report, fsm_state, fsm_data, calc_answer>>

\* A ledger in which two empty lines follow the second separator.
LedgerSpaced ==
  <<SepLine>> \o HeaderBlock("5.00%", "100.00%", "1", "1", "0", "0", "0", "01.01.25", "01.01.25")
    \o <<SepLine, BlankLine, BlankLine,
         Hdr("BTC", "long"), KV(K_PNL, "5.00%"), KV(K_ENTRY, "100"), KV(K_MARGIN, "X1"),
         KV(K_EXITS, "105 (100%)"), KV(K_DATE, "01.01.2025")>>

\* A ledger in which the first trade follows the second separator at once.
LedgerTight ==
  <<SepLine>> \o HeaderBlock("5.00%", "100.00%", "1", "1", "0", "0", "0", "01.01.25", "01.01.25")
    \o <<SepLine,
         Hdr("BTC", "long"), KV(K_PNL, "5.00%"), KV(K_ENTRY, "100"), KV(K_MARGIN, "X1"),
         KV(K_EXITS, "105 (100%)"), KV(K_DATE, "01.01.2025")>>

dialogFrame ==
  <<cacheVars, parserVars, aggVars, sim_runs, stats_backup, report, l_trade_text, customVars,
    broadcastVars>>

\* The calculator dialogue of one administrator.
NextCalc ==
  \/ cq_calculate_movement_start /\ UNCHANGED dialogFrame
  \/ \E text \in DOMAIN UpperTable : process_calc_ticker(text) /\ UNCHANGED dialogFrame
  \/ \E inp \in EntryInputs : process_calc_entry(inp) /\ UNCHANGED dialogFrame
  \/ \E inp \in MarginInputs : process_calc_margin(inp) /\ UNCHANGED dialogFrame
  \/ \E direction \in {"long", "short"} : process_calc_direction(direction) /\ UNCHANGED dialogFrame
  \/ \E inp \in ExitsInputs : \E now \in Days : process_calc_exits(inp, now) /\ UNCHANGED dialogFrame

\* The dialogue has not begun; the ledger plays no part in it.
InitCalc ==
  /\ stats_file = LedgerB
  /\ STATS_CACHE = EmptyDict
  /\ pc = [t \in Tasks |-> "idle"]
  /\ l_parsed = [t \in Tasks |-> EmptyParse]
  /\ started = 0
  /\ content = <<>>
  /\ called = FALSE
  /\ result = EmptyParse
  /\ a_trades = <<>>
  /\ a_params = RefParams("compound")
  /\ a_pc = "start"
  /\ a_out = EmptyDict
  /\ sim_runs = <<>>
  /\ stats_backup = NoBackup
  /\ report = NoReport
  /\ fsm_state = "None"
  /\ fsm_data = EmptyDict
  /\ l_trade_text = [t \in Tasks |-> <<>>]
  /\ calc_answer = NoAnswer
  /\ NoCustomDialogue
  /\ NoBroadcast

SpecCalc == InitCalc /\ [][NextCalc]_vars

\* LedgerB has the shape of the template of initialize_stats_file: one empty
\* line between the second separator and the first trade.
EditLedgers == {LedgerB, LedgerSpaced, LedgerTight}

\* The dialogue data after ticker, entry price, margin and direction.
CalcDataOf(direction) ==
  [f \in {"ticker", "entry", "margin", "direction"} |->
     CASE f = "ticker" -> "ETH"
       [] f = "entry" -> [text |-> "100", ok |-> TRUE, value |-> 10000, repr |-> "100.0"]
       [] f = "margin" -> [text |-> "x1", ok |-> TRUE, value |-> 100, repr |-> "1.0"]
       [] OTHER -> direction]

\* The trade texts process_calc_exits stores for the exits it accepts.
ResultTexts ==
  {result_text(CalcDataOf(direction), inp.text, final_pnl(inp.legs, CalcDataOf(direction)), now) :
     direction \in {"long", "short"},
     inp \in {i \in ExitsInputs : ~i.bad /\ i.legs # <<>> /\ total_percent(i.legs) <= 10010},
     now \in Days}

\* The calculator has answered with a result and waits for the confirmation
\* (the state process_calc_exits leaves); the file is one of EditLedgers.
InitEdit ==
  /\ stats_file \in EditLedgers
  /\ STATS_CACHE = EmptyDict
  /\ pc = [t \in Tasks |-> "idle"]
  /\ l_parsed = [t \in Tasks |-> EmptyParse]
  /\ started = 0
  /\ content = <<>>
  /\ called = FALSE
  /\ result = EmptyParse
  /\ a_trades = <<>>
  /\ a_params = RefParams("compound")
  /\ a_pc = "start"
  /\ a_out = EmptyDict
  /\ sim_runs = <<>>
  /\ stats_backup = NoBackup
  /\ report = NoReport
  /\ fsm_state = "confirm_add_trade_to_stats"
  /\ \E text \in ResultTexts : fsm_data = Put(EmptyDict, "final_trade_text", text)
  /\ l_trade_text = [t \in Tasks |-> <<>>]
  /\ calc_answer = Answer("result")
  /\ NoCustomDialogue
  /\ NoBroadcast

editFrame == <<parserVars, aggVars, sim_runs, customVars, broadcastVars>>

\* cq_add_trade_to_stats with the rewrite and the refresh it ends in.
NextEdit ==
  \/ \E t \in Tasks : cq_add_trade_to_stats(t) /\ UNCHANGED editFrame
  \/ \E t \in Tasks : AddTradeWrite(t) /\ UNCHANGED editFrame
  \/ \E t \in Tasks : RewriteParseThread(t) /\ UNCHANGED recFrame
  \/ \E t \in Tasks : \E now \in Days : RewriteAfterParse(t, now) /\ UNCHANGED recFrame
  \/ \E t \in Tasks : ParseThread(t) /\ UNCHANGED <<parserVars, aggVars, sim_runs, recVars>>
  \/ \E t \in Tasks : AfterParse(t) /\ UNCHANGED <<parserVars, aggVars, sim_runs, recVars>>
  \/ \E t \in Tasks : AfterStreaks(t) /\ UNCHANGED <<parserVars, aggVars, sim_runs, recVars>>
  \/ \E t \in Tasks : AfterPnlChart(t) /\ UNCHANGED <<parserVars, aggVars, sim_runs, recVars>>
  \/ \E t \in Tasks : AfterSummaryChart(t) /\ UNCHANGED <<parserVars, aggVars, sim_runs, recVars>>
  \/ \E t \in Tasks : AfterSimCompound(t) /\ UNCHANGED <<parserVars, aggVars, sim_runs, recVars>>
  \/ \E t \in Tasks : AfterSimCompoundChart(t) /\ UNCHANGED <<parserVars, aggVars, sim_runs, recVars>>
  \/ \E t \in Tasks : AfterSimSimple(t) /\ UNCHANGED <<parserVars, aggVars, sim_runs, recVars>>
  \/ \E t \in Tasks : AfterSimSimpleChart(t) /\ UNCHANGED <<parserVars, aggVars, sim_runs, recVars>>
  \/ \E t \in Tasks : Finish(t) /\ UNCHANGED <<parserVars, aggVars, sim_runs, recVars>>

SpecEdit == InitEdit /\ [][NextEdit]_vars

\* ------------------------------------------------------------------------
\* The broadcast: cq_broadcast_prompt, process_broadcast_content,
\* cq_confirm_broadcast, cq_cancel_broadcast and broadcast_worker
\* ------------------------------------------------------------------------
MaxBroadcasts == 2

NUsers == 2

ADMIN == "admin"

\* The tuple cq_confirm_broadcast puts on the queue for the user uid.
CopyTask(uid, content_message) ==
  [action |-> "copy", chat_id |-> uid, from_chat_id |-> content_message.chat_id,
   message_id |-> content_message.message_id]

\* cq_broadcast_prompt
cq_broadcast_prompt ==
  /\ fsm_state' = "get_broadcast_content"
  /\ UNCHANGED <<fsm_data, broadcastVars>>

\* process_broadcast_content: the message of the administrator is kept in
\* broadcast_content.
process_broadcast_content ==
  /\ fsm_state = "get_broadcast_content"
  /\ next_message_id <= MaxBroadcasts
  /\ broadcast_content' = Put(broadcast_content, ADMIN,
                              [chat_id |-> ADMIN, message_id |-> next_message_id])
  /\ next_message_id' = next_message_id + 1
  /\ fsm_state' = "confirm_broadcast"
  /\ UNCHANGED <<fsm_data, broadcast_queue, unfinished_tasks, worker, outbox, batch_report>>

\* cq_confirm_broadcast: one task per user who is not banned, the users
\* 1..n here; the queue is unbounded, so no put waits.
RECURSIVE TasksFor(_, _, _)
TasksFor(uid, n, content_message) ==
  IF uid > n THEN <<>>
  ELSE <<CopyTask(uid, content_message)>> \o TasksFor(uid + 1, n, content_message)

cq_confirm_broadcast(n) ==
  /\ fsm_state = "confirm_broadcast"
  /\ fsm_state' = "None"
  /\ fsm_data' = EmptyDict
  /\ IF ~Has(broadcast_content, ADMIN)
     THEN UNCHANGED <<broadcast_content, broadcast_queue, unfinished_tasks>>
     ELSE /\ broadcast_content' = EmptyDict
          /\ broadcast_queue' = broadcast_queue \o TasksFor(1, n, broadcast_content[ADMIN])
          /\ unfinished_tasks' = unfinished_tasks + n
  /\ UNCHANGED <<worker, outbox, batch_report, next_message_id>>

\* cq_cancel_broadcast: it answers in every state and leaves
\* broadcast_content as it is.
cq_cancel_broadcast ==
  /\ fsm_state' = "None"
  /\ fsm_data' = EmptyDict
  /\ UNCHANGED broadcastVars

\* broadcast_worker, line 1946: task = await broadcast_queue.get()
WorkerGet ==
  /\ worker.pc = "get"
  /\ broadcast_queue # <<>>
  /\ worker' = [worker EXCEPT !.pc = "send", !.task = Head(broadcast_queue)]
  /\ broadcast_queue' = Tail(broadcast_queue)
  /\ UNCHANGED <<fsm_state, fsm_data, broadcast_content, unfinished_tasks, outbox, batch_report,
                 next_message_id>>

\* Variant: a failed send is not counted.
WorkerSend_failedUncounted(ok) ==
  /\ worker.pc = "send"
  /\ outbox' = Append(outbox, [task |-> worker.task, ok |-> ok, batch |-> batch_report.batch + 1])
  /\ unfinished_tasks' = unfinished_tasks - 1
  /\ LET counted == [worker EXCEPT !.sent_total = IF ok THEN @ + 1 ELSE @]
     IN IF broadcast_queue # <<>>
        THEN /\ worker' = [counted EXCEPT !.pc = "sleep", !.task = Head(broadcast_queue)]
             /\ broadcast_queue' = Tail(broadcast_queue)
        ELSE /\ worker' = [counted EXCEPT !.pc = "report", !.task = NoTask]
             /\ UNCHANGED broadcast_queue
  /\ UNCHANGED <<fsm_state, fsm_data, broadcast_content, batch_report, next_message_id>>

\* Lines 1949-1970: the send returns (ok) or raises; it is counted, then the
\* next task is taken with get_nowait and task_done is called, or, with the
\* queue empty, task_done is called and the batch ends.
WorkerSend(ok) ==
  /\ worker.pc = "send"
  /\ outbox' = Append(outbox, [task |-> worker.task, ok |-> ok, batch |-> batch_report.batch + 1])
  /\ unfinished_tasks' = unfinished_tasks - 1
  /\ LET counted == IF ok THEN [worker EXCEPT !.sent_total = @ + 1]
                    ELSE [worker EXCEPT !.failed_total = @ + 1,
                                        !.failed_users = Append(@, worker.task.chat_id)]
     IN IF broadcast_queue # <<>>
        THEN /\ worker' = [counted EXCEPT !.pc = "sleep", !.task = Head(broadcast_queue)]
             /\ broadcast_queue' = Tail(broadcast_queue)
        ELSE /\ worker' = [counted EXCEPT !.pc = "report", !.task = NoTask]
             /\ UNCHANGED broadcast_queue
  /\ UNCHANGED <<fsm_state, fsm_data, broadcast_content, batch_report, next_message_id>>

\* Line 1972: await asyncio.sleep(0.1)
WorkerSleep ==
  /\ worker.pc = "sleep"
  /\ worker' = [worker EXCEPT !.pc = "send"]
  /\ UNCHANGED <<fsm_state, fsm_data, broadcast_content, broadcast_queue, unfinished_tasks, outbox,
                 batch_report, next_message_id>>

\* Lines 1974-1984 and the top of the outer loop: the batch report is sent
\* and the counters start again.
WorkerReport ==
  /\ worker.pc = "report"
  /\ batch_report' = [batch |-> batch_report.batch + 1, sent_total |-> worker.sent_total,
                      failed_total |-> worker.failed_total]
  /\ worker' = WorkerStart
  /\ UNCHANGED <<fsm_state, fsm_data, broadcast_content, broadcast_queue, unfinished_tasks, outbox,
                 next_message_id>>

WorkerStep ==
  \/ WorkerGet
  \/ \E ok \in BOOLEAN : WorkerSend(ok)
  \/ WorkerSleep
  \/ WorkerReport

broadcastFrame ==
  <<cacheVars, parserVars, aggVars, sim_runs, stats_backup, report, l_trade_text, calc_answer,
    customVars>>

NextBroadcast ==
  \/ cq_broadcast_prompt /\ UNCHANGED broadcastFrame
  \/ process_broadcast_content /\ UNCHANGED broadcastFrame
  \/ \E n \in 0..NUsers : cq_confirm_broadcast(n) /\ UNCHANGED broadcastFrame
  \/ cq_cancel_broadcast /\ UNCHANGED broadcastFrame
  \/ WorkerGet /\ UNCHANGED broadcastFrame
  \/ \E ok \in BOOLEAN : WorkerSend(ok) /\ UNCHANGED broadcastFrame
  \/ WorkerSleep /\ UNCHANGED broadcastFrame
  \/ WorkerReport /\ UNCHANGED broadcastFrame

\* main has started broadcast_worker; nothing has been broadcast.
InitBroadcast ==
  /\ stats_file = LedgerA
  /\ STATS_CACHE = EmptyDict
  /\ pc = [t \in Tasks |-> "idle"]
  /\ l_parsed = [t \in Tasks |-> EmptyParse]
  /\ started = 0
  /\ content = <<>>
  /\ called = FALSE
  /\ result = EmptyParse
  /\ a_trades = <<>>
  /\ a_params = RefParams("compound")
  /\ a_pc = "start"
  /\ a_out = EmptyDict
  /\ sim_runs = <<>>
  /\ stats_backup = NoBackup
  /\ report = NoReport
  /\ fsm_state = "None"
  /\ fsm_data = EmptyDict
  /\ l_trade_text = [t \in Tasks |-> <<>>]
  /\ calc_answer = NoAnswer
  /\ NoCustomDialogue
  /\ NoBroadcast

SpecBroadcast == InitBroadcast /\ [][NextBroadcast]_vars

\* The event loop runs broadcast_worker whenever it can take a step, and
\* every send, sleep and report it awaits returns or raises.
SpecBroadcastLive == SpecBroadcast /\ WF_vars(WorkerStep /\ UNCHANGED broadcastFrame)

\* ------------------------------------------------------------------------
\* Properties of the statistics cache (specification Spec)
\* ------------------------------------------------------------------------
\* The cache a refresh builds when it runs to completion on a parse result.
FullSnapshot(parsed) ==
  [k \in {"summary", "trades", "streaks", "pnl_chart_html", "pnl_chart_png",
          "summary_chart_png", "sim_compound_results", "sim_compound_chart_html",
          "sim_compound_chart_png", "sim_simple_results", "sim_simple_chart_html",
          "sim_simple_chart_png"} |->
     CASE k = "summary" -> parsed.summary
       [] k = "trades" -> parsed.trades
       [] k = "streaks" -> calculate_streaks_sync(parsed.trades)
       [] k \in {"pnl_chart_html", "pnl_chart_png"} -> plot_pnl_chart(parsed.trades)
       [] k = "summary_chart_png" -> plot_summary_chart(parsed.summary)
       [] k = "sim_compound_results" -> SimResults(parsed.trades, "compound")
       [] k \in {"sim_compound_chart_html", "sim_compound_chart_png"} ->
            plot_simulation_chart(SimResults(parsed.trades, "compound").history)
       [] k = "sim_simple_results" -> SimResults(parsed.trades, "simple")
       [] OTHER -> plot_simulation_chart(SimResults(parsed.trades, "simple").history)]

\* ------------------------------------------------------------------------
\* The custom simulation dialogue of one user who is not an administrator
\* A float is a record: nan is TRUE for NaN, v is the value otherwise.
\* ------------------------------------------------------------------------
Num(v) == [raises |-> FALSE, nan |-> FALSE, v |-> v]

\* float(message.text.replace(',', '.')) for the messages the user sends.
FloatOfText ==
  [t \in {"1000", "3", "35", "0", "-1", "150", "nan", "abc"} |->
     CASE t = "1000" -> Num(1000)
       [] t = "3" -> Num(3)
       [] t = "35" -> Num(35)
       [] t = "0" -> Num(0)
       [] t = "-1" -> Num(-1)
       [] t = "150" -> Num(150)
       [] t = "nan" -> [raises |-> FALSE, nan |-> TRUE, v |-> 0]
       [] OTHER -> [raises |-> TRUE, nan |-> FALSE, v |-> 0]]

BalanceInputs == {"1000", "0", "nan", "abc"}

RiskInputs == {"3", "0", "150", "nan"}

LeverageInputs == {"35", "-1", "0"}

\* value <= k and k < value on floats: a comparison with NaN is False.
FloatLe(x, k) == ~x.nan /\ x.v <= k

FloatLt(k, x) == ~x.nan /\ k < x.v

\* cq_custom_simulation_start for a user who is not an administrator: at the
\* limit or within the cooldown the handler answers and returns; otherwise
\* the dialogue of this chat starts.
cq_custom_simulation_start(c) ==
  /\ IF used_count >= CUSTOM_SIM_LIMIT \/ last_sim_recent
     THEN UNCHANGED <<sim_state, sim_data>>
     ELSE /\ sim_state' = [sim_state EXCEPT ![c] = "get_balance"]
          /\ sim_data' = [sim_data EXCEPT ![c] = Put(sim_data[c], "prompt_message_id", c)]
  /\ UNCHANGED <<used_count, last_sim_recent, sim_call, completed_today>>

\* process_next_sim_step
process_next_sim_step(c, new_state, data_key, value) ==
  IF ~Has(sim_data[c], "prompt_message_id")
  THEN /\ sim_state' = [sim_state EXCEPT ![c] = "None"]
       /\ sim_data' = [sim_data EXCEPT ![c] = EmptyDict]
  ELSE /\ sim_data' = [sim_data EXCEPT ![c] = Put(sim_data[c], data_key, value)]
       /\ sim_state' = [sim_state EXCEPT ![c] = new_state]

\* process_balance
process_balance(c, text) ==
  /\ sim_state[c] = "get_balance"
  /\ LET value == FloatOfText[text]
     IN IF value.raises \/ FloatLe(value, 0)
        THEN UNCHANGED <<sim_state, sim_data>>
        ELSE process_next_sim_step(c, "get_risk", "balance", value)
  /\ UNCHANGED <<used_count, last_sim_recent, sim_call, completed_today>>

\* process_risk
process_risk(c, text) ==
  /\ sim_state[c] = "get_risk"
  /\ LET value == FloatOfText[text]
     IN IF value.raises \/ ~(FloatLt(0, value) /\ FloatLe(value, 100))
        THEN UNCHANGED <<sim_state, sim_data>>
        ELSE process_next_sim_step(c, "get_leverage", "risk", value)
  /\ UNCHANGED <<used_count, last_sim_recent, sim_call, completed_today>>

\* process_leverage
process_leverage(c, text) ==
  /\ sim_state[c] = "get_leverage"
  /\ LET value == FloatOfText[text]
     IN IF value.raises \/ FloatLe(value, 0)
        THEN UNCHANGED <<sim_state, sim_data>>
        ELSE process_next_sim_step(c, "get_sim_type", "leverage", value)
  /\ UNCHANGED <<used_count, last_sim_recent, sim_call, completed_today>>

\* cq_custom_sim_run up to its call of calculate_simulation (lines 1115-1136):
\* the dialogue of the chat is cleared; with a value missing the handler
\* answers an error and returns.
cq_custom_sim_run_call(c, sim_type) ==
  /\ sim_state[c] = "get_sim_type"
  /\ sim_call[c] = NoCall
  /\ sim_state' = [sim_state EXCEPT ![c] = "None"]
  /\ sim_data' = [sim_data EXCEPT ![c] = EmptyDict]
  /\ IF \E k \in {"balance", "risk", "leverage"} : ~Has(sim_data[c], k)
     THEN UNCHANGED sim_call
     ELSE sim_call' = [sim_call EXCEPT ![c] =
                         [trades |-> Get("trades", <<>>), sim_type |-> sim_type,
                          initial_balance |-> sim_data[c]["balance"],
                          risk_percent |-> sim_data[c]["risk"],
                          leverage |-> sim_data[c]["leverage"]]]
  /\ UNCHANGED <<used_count, last_sim_recent, completed_today>>

\* cq_custom_sim_run from the return of calculate_simulation (lines
\* 1137-1168): the results are sent, then the count of the day is
\* incremented and last_sim_time is set.
cq_custom_sim_run_return(c) ==
  /\ sim_call[c] # NoCall
  /\ sim_call' = [sim_call EXCEPT ![c] = NoCall]
  /\ completed_today' = completed_today + 1
  /\ used_count' = used_count + 1
  /\ last_sim_recent' = TRUE
  /\ UNCHANGED <<sim_state, sim_data>>

\* CUSTOM_SIM_COOLDOWN_SECONDS pass.
CooldownPasses ==
  /\ last_sim_recent
  /\ last_sim_recent' = FALSE
  /\ UNCHANGED <<sim_state, sim_data, used_count, sim_call, completed_today>>

customFrame ==
  <<cacheVars, parserVars, aggVars, sim_runs, stats_backup, report, fsm_state, fsm_data,
    l_trade_text, calc_answer, broadcastVars>>

NextCustom ==
  \/ \E c \in Chats : cq_custom_simulation_start(c) /\ UNCHANGED customFrame
  \/ \E c \in Chats : \E text \in BalanceInputs : process_balance(c, text) /\ UNCHANGED customFrame
  \/ \E c \in Chats : \E text \in RiskInputs : process_risk(c, text) /\ UNCHANGED customFrame
  \/ \E c \in Chats : \E text \in LeverageInputs : process_leverage(c, text) /\ UNCHANGED customFrame
  \/ \E c \in Chats : \E sim_type \in {"compound", "simple"} :
       cq_custom_sim_run_call(c, sim_type) /\ UNCHANGED customFrame
  \/ \E c \in Chats : cq_custom_sim_run_return(c) /\ UNCHANGED customFrame
  \/ CooldownPasses /\ UNCHANGED customFrame

\* The custom simulations the user has run today when the model starts.
RunsSoFar == CUSTOM_SIM_LIMIT - 2

\* The cache holds the snapshot of LedgerB; the user has run RunsSoFar
\* custom simulations today, the last one more than the cooldown ago.
InitCustom ==
  /\ stats_file = LedgerB
  /\ STATS_CACHE = FullSnapshot(parse_stats_data_sync(LedgerB))
  /\ pc = [t \in Tasks |-> "idle"]
  /\ l_parsed = [t \in Tasks |-> EmptyParse]
  /\ started = 0
  /\ content = <<>>
  /\ called = FALSE
  /\ result = EmptyParse
  /\ a_trades = <<>>
  /\ a_params = RefParams("compound")
  /\ a_pc = "start"
  /\ a_out = EmptyDict
  /\ sim_runs = <<>>
  /\ stats_backup = NoBackup
  /\ report = NoReport
  /\ fsm_state = "None"
  /\ fsm_data = EmptyDict
  /\ l_trade_text = [t \in Tasks |-> <<>>]
  /\ calc_answer = NoAnswer
  /\ sim_state = [c \in Chats |-> "None"]
  /\ sim_data = [c \in Chats |-> EmptyDict]
  /\ used_count = RunsSoFar
  /\ last_sim_recent = FALSE
  /\ sim_call = [c \in Chats |-> NoCall]
  /\ completed_today = RunsSoFar
  /\ NoBroadcast

SpecCustom == InitCustom /\ [][NextCustom]_vars

\* The streaks and both simulation results in the cache are the ones
\* computed from the trade list in the cache.
DerivedFromCachedTrades ==
  /\ Has(STATS_CACHE, "streaks")
  /\ STATS_CACHE["streaks"] = calculate_streaks_sync(STATS_CACHE["trades"])
  /\ Has(STATS_CACHE, "sim_compound_results")
  /\ STATS_CACHE["sim_compound_results"] = SimResults(STATS_CACHE["trades"], "compound")
  /\ Has(STATS_CACHE, "sim_simple_results")
  /\ STATS_CACHE["sim_simple_results"] = SimResults(STATS_CACHE["trades"], "simple")

\* C1: in every reachable state a reader finds one complete snapshot (a
\* reader such as cq_show_stats reads the cache without awaiting between its
\* reads, so it sees the cache of one state): when
\* the cache holds a trade list, streaks and both simulation results, the
\* streaks and the simulation results are the ones derived from that trade
\* list, never those of the previous snapshot.
C1_ReadersSeeCompleteSnapshot ==
  (/\ Has(STATS_CACHE, "trades")
   /\ Has(STATS_CACHE, "streaks")
   /\ Has(STATS_CACHE, "sim_compound_results")
   /\ Has(STATS_CACHE, "sim_simple_results")) => DerivedFromCachedTrades

\* C2: a refresh ends either with every cached field replaced by the values
\* derived from the document it parsed, or with every cached field as it was
\* before the call.  Stated for the first refresh of a run, before which the
\* cache is the empty dict.
C2_RefreshAllOrNothing ==
  \A t \in Tasks :
    (started = 1 /\ pc[t] \in {"success", "error"}) =>
      \/ STATS_CACHE = EmptyDict
      \/ /\ DOMAIN STATS_CACHE = DOMAIN FullSnapshot(l_parsed[t])
         /\ STATS_CACHE = FullSnapshot(l_parsed[t])

\* What the parser returns for each ledger version.
LedgerParses == {parse_stats_data_sync(d) : d \in Ledgers}

\* C3: in every reachable state the cached summary and the cached trade list
\* are the two results of one parse of one ledger version (or both are
\* still missing).
C3_SummaryAndTradesFromOneParse ==
  \/ ~Has(STATS_CACHE, "summary") /\ ~Has(STATS_CACHE, "trades")
  \/ /\ Has(STATS_CACHE, "summary") /\ Has(STATS_CACHE, "trades")
     /\ \E parsed \in LedgerParses :
          /\ DOMAIN STATS_CACHE["summary"] = DOMAIN parsed.summary
          /\ STATS_CACHE["summary"] = parsed.summary
          /\ STATS_CACHE["trades"] = parsed.trades

\* Two refreshes that parsed different ledger versions are both under way,
\* one of them past its first store, and the cache holds a summary.
C3_Witness ==
  \E t1 \in Tasks : \E t2 \in Tasks :
    /\ pc[t1] = "streaks"
    /\ pc[t2] \in {"pnl_chart", "summary_chart", "sim_compound", "sim_simple"}
    /\ l_parsed[t1].trades # l_parsed[t2].trades
    /\ Has(STATS_CACHE, "summary")

\* C4: a step of a refresh whose parse returned an empty summary and an
\* empty trade list changes no cache field (its only step after the parse
\* is the return).
C4_EmptyParseLeavesCache ==
  [][\A t \in Tasks :
       (pc[t] = "parsed" /\ pc'[t] # pc[t] /\ NothingParsed(l_parsed[t])) =>
         (STATS_CACHE' = STATS_CACHE /\ pc'[t] \notin {"streaks", "pnl_chart"})]_vars

\* A refresh has aborted on an empty parse while the cache held every field.
C4_Witness ==
  \E t \in Tasks :
    /\ pc[t] = "success"
    /\ NothingParsed(l_parsed[t])
    /\ Has(STATS_CACHE, "sim_simple_chart_png")
    /\ Has(STATS_CACHE, "summary_chart_png")

\* The cache holds a non-empty summary or a non-empty trade list.
CacheHoldsData ==
  \/ ~IsEmpty(Get("summary", EmptyDict))
  \/ Get("trades", <<>>) # <<>>

\* C5: once the cache holds a non-empty summary or a non-empty trade list,
\* it holds one in every later state.
C5_CacheNeverRegresses == [][CacheHoldsData => CacheHoldsData']_vars

\* The file no longer parses, a refresh of it has ended, and the cache
\* still holds data.
C5_Witness ==
  /\ CacheHoldsData
  /\ NothingParsed(parse_stats_data_sync(stats_file))
  /\ \E t \in Tasks : pc[t] = "success" /\ NothingParsed(l_parsed[t]) /\ started >= 2

\* C6: once interleaved refreshes have all finished (each returned to its
\* caller), the cached streaks and both cached simulation results are the
\* ones computed from the cached trade list.
C6_InterleavedRefreshesConsistent ==
  ((\A t \in Tasks : pc[t] = "success") /\ Has(STATS_CACHE, "trades")) =>
    DerivedFromCachedTrades

\* C7: a caller reports success only for a refresh that replaced the cache,
\* never for one that aborted on an empty parse.
C7_SuccessOnlyWhenReplaced ==
  \A t \in Tasks : pc[t] = "success" => ~NothingParsed(l_parsed[t])

\* ------------------------------------------------------------------------
\* Properties of the parser (specification SpecParse)
\* ------------------------------------------------------------------------
SepPositions(d) == {i \in DOMAIN d : d[i].k = "sep"}

\* C8: a text with fewer than two separator lines parses to an empty summary
\* and an empty trade list, whatever its other lines are.
C8_FewerThanTwoSeparators ==
  (called /\ Cardinality(SepPositions(content)) < 2) =>
    (IsEmpty(result.summary) /\ result.trades = <<>>)

\* A parsed text with one separator, a complete header and a complete trade.
C8_Witness ==
  /\ called
  /\ Cardinality(SepPositions(content)) = 1
  /\ \E i \in DOMAIN content : content[i].k = "hdr"
  /\ \E i \in DOMAIN content : content[i] = KV(K_DATE, "01.01.2025")
  /\ \E i \in DOMAIN content : content[i].k = "dash" /\ content[i].key = K_UPDATE
  /\ NothingParsed(result)

\* The lines after the second separator.
TradesText(d) ==
  LET last == CHOOSE i \in SepPositions(d) : \A j \in SepPositions(d) : j <= i
  IN SubSeq(d, last + 1, Len(d))

TitlePositions(body) == {i \in DOMAIN body : body[i].k = "hdr"}

\* The lines of the segment whose title line is at position h.
SegmentLines(body, h) ==
  {i \in DOMAIN body : i > h /\ \A g \in TitlePositions(body) : g > h => i < g}

AcceptedDates == (DOMAIN StrptimeY4) \cup (DOMAIN StrptimeY2)

\* A ledger written to the grammar: two separators, then trade segments, each
\* starting with a `<TICKER> (long|short)` line, separated from the previous
\* one by a blank line, made of `key: value` lines and holding one date line
\* in an accepted format.
WellFormedLedger(d) ==
  /\ Cardinality(SepPositions(d)) = 2
  /\ LET body == TradesText(d)
         hs == TitlePositions(body)
     IN /\ \A i \in DOMAIN body : body[i].k \in {"hdr", "kv", "blank"}
        /\ \A i \in DOMAIN body : body[i].k # "blank" => \E h \in hs : h <= i
        /\ \A h \in hs : (\E g \in hs : g < h) => body[h - 1].k = "blank"
        /\ \A h \in hs :
             /\ Cardinality({i \in SegmentLines(body, h) :
                               body[i].k = "kv" /\ body[i].key = K_DATE}) = 1
             /\ \A i \in SegmentLines(body, h) :
                  (body[i].k = "kv" /\ body[i].key = K_DATE) => body[i].val \in AcceptedDates

\* The title lines of the trades text, in document order.
Titles(d) == SelectSeq(TradesText(d), LAMBDA l : l.k = "hdr")

\* C9: a well-formed ledger with N trade segments parses to exactly N trade
\* records, the j-th carrying the ticker and direction of the j-th segment
\* and a resolved date_dt.
C9_OneRecordPerSegment ==
  (called /\ WellFormedLedger(content)) =>
    /\ Len(result.trades) = Len(Titles(content))
    /\ \A j \in 1..Len(result.trades) :
         /\ result.trades[j]["ticker"] = Titles(content)[j].key
         /\ result.trades[j]["type"] = Titles(content)[j].val
         /\ Has(result.trades[j], "date_dt")

\* C10: every trade record the parser returns has a ticker, a direction and
\* a resolved date_dt.
C10_EveryRecordHasDate ==
  called =>
    \A j \in 1..Len(result.trades) :
      /\ Has(result.trades[j], "ticker")
      /\ Has(result.trades[j], "type")
      /\ Has(result.trades[j], "date_dt")

\* The first two separator positions of a text with at least two of them.
FirstSep(d) == CHOOSE i \in SepPositions(d) : \A j \in SepPositions(d) : i <= j

SecondSep(d) ==
  CHOOSE i \in SepPositions(d) \ {FirstSep(d)} : \A j \in SepPositions(d) \ {FirstSep(d)} : i <= j

\* The lines after the second separator.
TradesBody(d) == SubSeq(d, SecondSep(d) + 1, Len(d))

\* A paragraph of the trades text starts at a non-blank line that is the
\* first line or follows a blank line, and runs to the next blank line.
ParagraphStarts(body) ==
  {i \in DOMAIN body : body[i].k # "blank" /\ (i = 1 \/ body[i - 1].k = "blank")}

ParagraphLines(body, i) ==
  {j \in DOMAIN body : j >= i /\ \A n \in i..j : body[n].k # "blank"}

\* The paragraph at i is a trade segment written to the grammar: a title line
\* followed by `key: value` lines, one of them a date in an accepted format.
WellFormedSegment(body, i) ==
  /\ body[i].k = "hdr"
  /\ \A j \in ParagraphLines(body, i) \ {i} : body[j].k = "kv"
  /\ Cardinality({j \in ParagraphLines(body, i) : body[j].k = "kv" /\ body[j].key = K_DATE}) = 1
  /\ \A j \in ParagraphLines(body, i) :
       (body[j].k = "kv" /\ body[j].key = K_DATE) => body[j].val \in AcceptedDates

\* The record r holds the title and the field values of the paragraph at i.
RecordOfSegment(r, body, i) ==
  /\ r["ticker"] = body[i].key
  /\ r["type"] = body[i].val
  /\ \A j \in ParagraphLines(body, i) \ {i} :
       (\A n \in ParagraphLines(body, i) : n > j => body[n].key # body[j].key) =>
         /\ Has(r, KeyMap(body[j].key))
         /\ r[KeyMap(body[j].key)] = body[j].val

\* C11: whatever malformed segments (no title line, an unparsable date) a
\* ledger holds, each well-formed segment is returned as a record with the
\* title and the field values of its own lines.  Stated for ledgers whose
\* title lines all carry tickers of A-Z and 0-9.
C11_MalformedSegmentSkippedAlone ==
  (/\ called
   /\ Cardinality(SepPositions(content)) = 2
   /\ \A i \in DOMAIN TradesBody(content) :
        TradesBody(content)[i].k = "hdr" => TradesBody(content)[i].key \in UpperTickers) =>
    \A i \in ParagraphStarts(TradesBody(content)) :
      WellFormedSegment(TradesBody(content), i) =>
        \E n \in DOMAIN result.trades : RecordOfSegment(result.trades[n], TradesBody(content), i)

\* The lines between the first two separators match the nine-field grammar.
HeaderMatches(d) ==
  LET ls == NonBlank(SubSeq(d, FirstSep(d) + 1, SecondSep(d) - 1))
  IN \E i \in 1..Len(ls) : MatchesAt(ls, i)

\* The same text with a well-formed header between its first two separators.
WithGoodHeader(d) ==
  SubSeq(d, 1, FirstSep(d)) \o GoodHeader \o SubSeq(d, SecondSep(d), Len(d))

\* C12: for a text with two separators whose header does not match the
\* grammar, the parser returns an empty summary and the trade list it returns
\* for the same text with a well-formed header.
C12_TradesIndependentOfSummary ==
  (called /\ Cardinality(SepPositions(content)) >= 2 /\ ~HeaderMatches(content)) =>
    /\ IsEmpty(result.summary)
    /\ result.trades = parse_stats_data_sync(WithGoodHeader(content)).trades

\* A parsed ledger with an incomplete header and two trades returned.
C12_Witness ==
  /\ called
  /\ Cardinality(SepPositions(content)) = 2
  /\ ~HeaderMatches(content)
  /\ IsEmpty(result.summary)
  /\ Len(result.trades) = 2

\* C13: the summary the parser returns is empty or has all nine keys.
C13_SummaryAllOrEmpty ==
  called =>
    \/ IsEmpty(result.summary)
    \/ DOMAIN result.summary = {SummaryKeys[j] : j \in 1..Len(SummaryKeys)}

\* A parsed ledger whose header holds some of the nine lines, and an empty
\* summary returned for it.
C13_Witness ==
  /\ called
  /\ Cardinality(SepPositions(content)) = 2
  /\ \E i \in FirstSep(content)..SecondSep(content) : content[i] = KV(K_TOTAL, "1")
  /\ ~HeaderMatches(content)
  /\ IsEmpty(result.summary)
  /\ result.trades # <<>>

\* C14: every trade record the parser returns has a pnl_value: 0 when the
\* trade is in progress, the number of its pnl text when float() reads it,
\* 0 otherwise.
C14_EveryRecordHasPnlValue ==
  called =>
    \A j \in 1..Len(result.trades) :
      LET r == result.trades[j]
      IN /\ Has(r, "pnl_value")
         /\ r["pnl_value"] = IF r["in_progress"] THEN 0
                              ELSE IF Has(r, "pnl") /\ r["pnl"] \in DOMAIN FloatTable
                                   THEN FloatTable[r["pnl"]] ELSE 0

\* The list without its j-th element.
Without(seq, j) == SubSeq(seq, 1, j - 1) \o SubSeq(seq, j + 1, Len(seq))

\* The record's exits text holds the in-progress phrase.
MarkedInProgress(r) == Has(r, "exits") /\ r["exits"] \in InProgressTexts

\* C15: a returned trade whose exits text holds the in-progress phrase has
\* in_progress = TRUE and pnl_value = 0, is in neither the sequence the
\* streaks nor the one the simulation processes, and adds one to the
\* reconciler's total_deals and one to its in_progress count.
C15_InProgressTrade ==
  called =>
    \A j \in 1..Len(result.trades) :
      LET r == result.trades[j]
      IN MarkedInProgress(r) =>
           /\ r["in_progress"] = TRUE
           /\ Has(r, "pnl_value") /\ r["pnl_value"] = 0
           /\ \A n \in DOMAIN ChronoTrades(result.trades) :
                ChronoTrades(result.trades)[n]["original_index"] # r["original_index"]
           /\ \A n \in DOMAIN SimChronoTrades(result.trades) :
                SimChronoTrades(result.trades)[n]["original_index"] # r["original_index"]
           /\ cq_check_stats_counts(result.trades).total_deals
                = cq_check_stats_counts(Without(result.trades, j)).total_deals + 1
           /\ cq_check_stats_counts(result.trades).in_progress
                = cq_check_stats_counts(Without(result.trades, j)).in_progress + 1

\* A parsed ledger with a dated open trade next to a completed dated one.
C15_Witness ==
  /\ called
  /\ Len(result.trades) = 2
  /\ \E j \in 1..2 : MarkedInProgress(result.trades[j]) /\ Has(result.trades[j], "date_dt")
  /\ Len(ChronoTrades(result.trades)) = 1
  /\ cq_check_stats_counts(result.trades).in_progress = 1

\* ------------------------------------------------------------------------
\* Properties of the aggregations (specification SpecAgg)
\* ------------------------------------------------------------------------
\* The positions of the trades that are not in progress and have a date.
CompletedPositions(trades) ==
  {i \in DOMAIN trades : ~trades[i]["in_progress"] /\ Has(trades[i], "date_dt")}

\* seq lists exactly the completed dated trades of the list, by date
\* ascending, trades of one date by original_index descending.
IsChronological(seq, trades) ==
  /\ Len(seq) = Cardinality(CompletedPositions(trades))
  /\ \A n \in DOMAIN seq :
       \E i \in CompletedPositions(trades) :
         /\ trades[i]["original_index"] = seq[n]["original_index"]
         /\ DOMAIN trades[i] = DOMAIN seq[n]
         /\ trades[i] = seq[n]
  /\ \A m \in DOMAIN seq : \A n \in DOMAIN seq :
       m < n =>
         \/ seq[m]["date_dt"] < seq[n]["date_dt"]
         \/ /\ seq[m]["date_dt"] = seq[n]["date_dt"]
            /\ seq[m]["original_index"] > seq[n]["original_index"]

\* C16: the loop of the streaks, the data frame of the PnL chart and the
\* loop of the simulation run over the same sequence: the completed dated
\* trades by date ascending, same-date trades by original_index descending.
C16_OneProcessingOrder ==
  a_pc = "done" =>
    /\ a_trades # <<>> => IsChronological(a_out["streaks_order"], a_trades)
    /\ IsChronological(a_out["pnl_order"], a_trades)
    /\ IsChronological(a_out["sim_order"], a_trades)
    /\ a_out["pnl_order"] = a_out["sim_order"]
    /\ a_trades # <<>> => a_out["streaks_order"] = a_out["sim_order"]

\* All aggregations have run on a list with two completed trades of one
\* date, a trade of another date before them in the document, and a trade
\* that is filtered out.
C16_Witness ==
  /\ a_pc = "done"
  /\ Len(a_out["sim_order"]) = 2
  /\ Len(a_trades) = 3
  /\ a_out["sim_order"][1]["date_dt"] = a_out["sim_order"][2]["date_dt"]
  /\ a_out["sim_order"][1]["original_index"] = 2
  /\ a_out["sim_order"][2]["original_index"] = 1

Sign(t) == IF PnlValue(t) > 0 THEN 1 ELSE IF PnlValue(t) < 0 THEN -1 ELSE 0

\* seq holds k consecutive trades of sign sg.
HasRun(seq, k, sg) ==
  \E i \in 1..(Len(seq) - k + 1) : \A n \in i..(i + k - 1) : Sign(seq[n]) = sg

LongestRun(seq, sg) ==
  CHOOSE k \in 0..Len(seq) :
    HasRun(seq, k, sg) /\ \A k2 \in (k + 1)..Len(seq) : ~HasRun(seq, k2, sg)

\* C17: the streaks are the lengths of the longest runs of positive, negative
\* and zero pnl_value (a trade without pnl_value counts as zero) in the
\* processing order, and (3, 1, 1) for the signs + + - 0 + + +.
C17_StreaksAreLongestRuns ==
  a_pc = "done" =>
    /\ a_out["streaks"] = [win |-> LongestRun(a_out["streaks_order"], 1),
                           loss |-> LongestRun(a_out["streaks_order"], -1),
                           be |-> LongestRun(a_out["streaks_order"], 0)]
    /\ a_trades = SignSample => a_out["streaks"] = [win |-> 3, loss |-> 1, be |-> 1]

\* The streaks of the sample with the signs + + - 0 + + + have been computed.
C17_Witness ==
  /\ a_pc = "done"
  /\ a_trades = SignSample
  /\ [n \in 1..Len(a_out["streaks_order"]) |-> Sign(a_out["streaks_order"][n])]
       = <<1, 1, -1, 0, 1, 1, 1>>
  /\ a_out["streaks"] = [win |-> 3, loss |-> 1, be |-> 1]

\* base * risk_percent/100 * leverage * pnl_value/100, in the fixed-point
\* units of the model.
ProfitOrLoss(p, balance, pnl) ==
  LET base == IF p.sim_type = "compound" THEN balance ELSE p.initial_balance
  IN ((((base * p.risk_percent) \div 100) * p.leverage) * pnl) \div 10000

RECURSIVE BalanceAfter(_, _, _)
BalanceAfter(p, seq, k) ==
  IF k = 0 THEN p.initial_balance
  ELSE BalanceAfter(p, seq, k - 1)
         + ProfitOrLoss(p, BalanceAfter(p, seq, k - 1), PnlValue(seq[k]))

\* (balance / initial_balance - 1) * 100
GrowthPercent(p, balance) == ((balance - p.initial_balance) * 10000) \div p.initial_balance

\* C18: the k-th processed trade changes the balance by base * risk_percent
\* / 100 * leverage * pnl_value / 100, base being the current balance in
\* compound mode and the initial balance in simple mode, and appends
\* (balance / initial_balance - 1) * 100 to the history.
C18_SimulationStep ==
  a_pc = "done" =>
    /\ Len(a_out["sim"].history) = Len(a_out["sim_order"]) + 1
    /\ \A k \in 1..Len(a_out["sim_order"]) :
         a_out["sim"].history[k + 1]
           = GrowthPercent(a_params, BalanceAfter(a_params, a_out["sim_order"], k))
    /\ a_out["sim"].final_balance
         = BalanceAfter(a_params, a_out["sim_order"], Len(a_out["sim_order"]))

\* A simple-mode simulation over three trades that moved the balance.
C18_Witness ==
  /\ a_pc = "done"
  /\ a_params.sim_type = "simple"
  /\ Len(a_out["sim_order"]) = 3
  /\ a_out["sim"].history[2] # 0
  /\ a_out["sim"].history[3] # a_out["sim"].history[2]
  /\ a_out["sim"].final_balance # a_params.initial_balance

\* C19: a simulation of a list without a completed dated trade returns the
\* history [0.0], 0.0 for min, max and final percent, and the initial
\* balance, in both modes.
C19_SimulationOfNothing ==
  (a_pc = "done" /\ CompletedPositions(a_trades) = {}) =>
    a_out["sim"] = [min_percent |-> 0, max_percent |-> 0, final_percent |-> 0,
                    final_balance |-> a_params.initial_balance, history |-> <<0>>]

\* A simple-mode simulation of a list holding only an open dated trade and
\* an undated one.
C19_Witness ==
  /\ a_pc = "done"
  /\ a_params.sim_type = "simple"
  /\ Len(a_trades) = 2
  /\ CompletedPositions(a_trades) = {}
  /\ \E i \in DOMAIN a_trades : a_trades[i]["in_progress"] /\ Has(a_trades[i], "date_dt")
  /\ a_out["sim"].history = <<0>>

OpenTrades(trades) == {i \in 1..Len(trades) : trades[i]["in_progress"]}

WonTrades(trades) == {i \in 1..Len(trades) : ~trades[i]["in_progress"] /\ PnlValue(trades[i]) > 0}

LostTrades(trades) == {i \in 1..Len(trades) : ~trades[i]["in_progress"] /\ PnlValue(trades[i]) < 0}

EvenTrades(trades) == {i \in 1..Len(trades) : ~trades[i]["in_progress"] /\ PnlValue(trades[i]) = 0}

\* The header a text parses to.
HeaderOf(d) == parse_stats_data_sync(d).summary

\* Task t takes the step that writes the rewritten header.
RewriteWrites(t) == pc[t] = "rewrite_parsed" /\ pc'[t] = "parse"

\* Task t takes the step in which the check answers.
CheckAnswers(t) == pc[t] = "check_parsed" /\ pc'[t] = "idle"

Stored(summary, key) == IF Has(summary, key) THEN FloatTable[summary[key]] ELSE 0

\* The win rate in the header differs from won / (won + lost) * 100 by more
\* than 0.01, in exact arithmetic.
WinrateDiffers(summary, trades) ==
  LET won == Cardinality(WonTrades(trades))
      n == won + Cardinality(LostTrades(trades))
  IN IF n = 0 THEN Abs(Stored(summary, "winrate")) > 1
     ELSE Abs(Stored(summary, "winrate") * n - won * 10000) > n

\* The total in the header differs from the sum over the completed trades by
\* more than 0.01.
TotalDiffers(summary, trades) ==
  Abs(Stored(summary, "total_pnl")
        - SumPnl(SelectSeq(trades, LAMBDA t : ~t["in_progress"]))) > 1

CountOf(trades, key) ==
  CASE key = "total_deals" -> Len(trades)
    [] key = "successful" -> Cardinality(WonTrades(trades))
    [] key = "losing" -> Cardinality(LostTrades(trades))
    [] key = "breakeven" -> Cardinality(EvenTrades(trades))
    [] OTHER -> Cardinality(OpenTrades(trades))

\* The day the header gives as the last update differs from the day of the
\* latest trade.
UpdateDiffers(summary, trades) ==
  /\ Has(summary, "last_update")
  /\ AnyDate(trades)
  /\ summary["last_update"] \in DOMAIN StrptimeY2
  /\ StrptimeY2[summary["last_update"]] # MaxDate(trades)

C23_ReconciliationIdempotent ==
  [][\A t \in Tasks :
       /\ CheckAnswers(t) /\ stats_backup # NoBackup
            /\ l_parsed[t] = parse_stats_data_sync(stats_file) /\ l_parsed[t].trades # <<>>
            => report'.kind = "ok"
       /\ RewriteWrites(t) /\ stats_backup # NoBackup
            /\ l_parsed[t] = parse_stats_data_sync(stats_file)
            => stats_file' = stats_file]_vars

FirstMarker(d) == SepIndices(d)[1]

SecondMarker(d) == SepIndices(d)[2]

BeforeFirst(d) == SubSeq(d, 1, FirstMarker(d) - 1)

AfterSecond(d) == SubSeq(d, SecondMarker(d) + 1, Len(d))

CheckSteps(t) ==
  /\ pc[t] \in {"idle", "check_parse", "check_parsed"}
  /\ pc'[t] \in {"idle", "check_parse", "check_parsed"}
  /\ pc'[t] # pc[t]

\* C25: the discrepancy check changes neither the ledger file nor the cache
\* (nor writes a backup); the header is rewritten only by the step of the
\* rewrite that cq_confirm_stats_rewrite starts.
C25_CheckChangesNothing ==
  [][/\ \A t \in Tasks :
          CheckSteps(t) =>
            stats_file' = stats_file /\ STATS_CACHE' = STATS_CACHE /\ stats_backup' = stats_backup
     /\ stats_file' # stats_file => \E t \in Tasks : RewriteWrites(t)]_vars

\* The check has reported discrepancies; the file is the initial one, no
\* backup was written and the cache is as it was.
C25_Witness ==
  /\ report.kind = "discrepancies"
  /\ stats_file = LedgerA
  /\ stats_backup = NoBackup
  /\ STATS_CACHE = EmptyDict

\* C30: for a parsed header whose last_update is in one of the two accepted
\* date forms (two- or four-digit year) and whose numbers are readable, the
\* check answers with a discrepancy list (possibly empty), in which the date
\* is listed exactly when its calendar day differs from the day of the latest
\* trade; it does not abort with a format error.
C30_BothDateFormsCompared ==
  [][\A t \in Tasks :
       LET summary == l_parsed[t].summary
           trades == l_parsed[t].trades
       IN CheckAnswers(t) /\ trades # <<>> /\ Has(summary, "last_update")
            /\ DateParses(summary["last_update"])
            /\ ~FloatRaises(summary, "total_pnl") /\ ~FloatRaises(summary, "winrate")
            /\ (\A key \in CountKeys : ~IntRaises(summary, key))
            => /\ report'.kind \in {"ok", "discrepancies"}
               /\ ("last_update" \in report'.discrepancies)
                    = (AnyDate(trades) /\ DateOf(summary["last_update"]) # MaxDate(trades))]_vars

\* ------------------------------------------------------------------------
\* Properties of the file and the cache under uploads (specification Spec)
\* ------------------------------------------------------------------------
\* C27: every overwrite of the ledger file happens only after a backup copy
\* of the previous version has been created: whenever the content of the file
\* changes, the newest backup holds the content the file had before.
C27_BackupBeforeOverwrite ==
  [][stats_file' # stats_file => stats_backup' = stats_file]_vars

\* summary of the cache (empty while the key is missing).
CachedSummary(cache) == IF Has(cache, "summary") THEN cache["summary"] ELSE EmptyDict

\* C28: once the cache holds a non-empty summary, no refresh leaves the
\* cached summary empty.
C28_SummaryNeverEmptied ==
  [][~IsEmpty(CachedSummary(STATS_CACHE)) => ~IsEmpty(CachedSummary(STATS_CACHE'))]_vars

\* ------------------------------------------------------------------------
\* Properties of the calculator dialogue (specification SpecCalc)
\* ------------------------------------------------------------------------
\* The value of the line with the given key in a trade text.
FieldOf(text, key) ==
  LET i == CHOOSE j \in DOMAIN text : text[j].k = "kv" /\ text[j].key = key
  IN text[i].val

\* The stored trade text comes from exits of at most 100 percent (tolerance
\* 0.1), entered as they stand in the text, and its pnl is the one of these
\* legs.
StoredTextFromValidExits(state, data) ==
  Has(data, "final_trade_text") =>
    /\ state = "confirm_add_trade_to_stats"
    /\ \E inp \in ExitsInputs :
         /\ inp.text = FieldOf(data["final_trade_text"], K_EXITS)
         /\ total_percent(inp.legs) <= 10010
         /\ FieldOf(data["final_trade_text"], K_PNL)
              = FormatPercent(final_pnl(inp.legs, data["calc_data"]))

\* C26: exit legs of more than 100 percent in total (tolerance 0.1) are
\* rejected: the answer is the error, no trade text is stored, the dialogue
\* stays in the state that waits for the exits, and no stored text ever comes
\* from such legs, rescaled or cut.
C26_ExitsOver100Rejected ==
  [][/\ fsm_state = "get_calc_exits" /\ calc_answer'.kind = "over_100" =>
          /\ calc_answer'.total_percent > 10010
          /\ fsm_state' = "get_calc_exits"
          /\ fsm_data' = fsm_data
          /\ ~Has(fsm_data', "final_trade_text")
     /\ StoredTextFromValidExits(fsm_state', fsm_data')]_vars

\* Exits of 100.2 percent in total have been answered with the error; the
\* dialogue still waits for the exits and holds no trade text.
C26_Witness ==
  /\ calc_answer = [kind |-> "over_100", total_percent |-> 10020]
  /\ fsm_state = "get_calc_exits"
  /\ ~Has(fsm_data, "final_trade_text")

\* ------------------------------------------------------------------------
\* Properties of cq_add_trade_to_stats (specification SpecEdit)
\* ------------------------------------------------------------------------
\* C29: adding a trade to a well-formed ledger that parses to N trades gives
\* a ledger that parses to N + 1 trades: the new trade first (original_index
\* 0) with the values of its text, then the N previous trades unchanged, in
\* their order.
C29_AddTradePrepends ==
  [][\A t \in Tasks :
       pc[t] = "add_write" /\ pc'[t] = "rewrite_parse" /\ WellFormedLedger(stats_file) =>
         LET before == parse_stats_data_sync(stats_file).trades
             after == parse_stats_data_sync(stats_file').trades
             new == l_trade_text[t]
         IN /\ Len(after) = Len(before) + 1
            /\ after[1]["original_index"] = 0
            /\ after[1]["ticker"] = new[1].key
            /\ after[1]["type"] = new[1].val
            /\ after[1]["pnl"] = FieldOf(new, K_PNL)
            /\ after[1]["entry"] = FieldOf(new, K_ENTRY)
            /\ after[1]["margin"] = FieldOf(new, K_MARGIN)
            /\ after[1]["exits"] = FieldOf(new, K_EXITS)
            /\ after[1]["date"] = FieldOf(new, K_DATE)
            /\ \A i \in 1..Len(before) : after[i + 1] = Put(before[i], "original_index", i)]_vars

\* ------------------------------------------------------------------------
\* Properties of the aggregates, continued (specification SpecAgg)
\* ------------------------------------------------------------------------
\* successful + losing + breakeven of cq_check_stats.
CompletedCount(values) == values.successful + values.losing + values.breakeven

\* C31: for every parsed trade list the aggregates agree: the last running
\* total of the series of plot_pnl_chart is the total_pnl of cq_check_stats,
\* and the streak pass and the simulation process successful + losing +
\* breakeven trades.
C31_AggregatesAgree ==
  a_pc = "done" /\ a_trades # <<>> =>
    LET values == a_out["values"]
        series == a_out["pnl_chart"].series
    IN /\ ~a_out["pnl_chart"].raised =>
            series[Len(series)].cumulative_pnl = values.total_pnl
       /\ Len(a_out["streaks_order"]) = CompletedCount(values)
       /\ Len(a_out["sim_order"]) = CompletedCount(values)

\* C32: every simulation result has history[0] = 0.0, a history of one point
\* more than there are completed dated trades, final_percent = the last
\* point, min_percent <= 0 <= max_percent and min_percent <= final_percent
\* <= max_percent.
C32_SimulationResultShape ==
  a_pc = "done" =>
    LET sim == a_out["sim"]
    IN /\ sim.history[1] = 0
       /\ Len(sim.history) = 1 + Cardinality(CompletedPositions(a_trades))
       /\ sim.final_percent = sim.history[Len(sim.history)]
       /\ sim.min_percent <= 0 /\ 0 <= sim.max_percent
       /\ sim.min_percent <= sim.final_percent /\ sim.final_percent <= sim.max_percent

\* A simulation of three trades that only won: every point after the start
\* lies above 0.
C32_Witness ==
  /\ a_pc = "done"
  /\ Len(a_out["sim"].history) = 4
  /\ \A k \in 2..4 : a_out["sim"].history[k] > 0
  /\ a_out["sim"].min_percent = 0
  /\ a_out["sim"].final_percent = a_out["sim"].max_percent

Reverse(seq) == [k \in 1..Len(seq) |-> seq[Len(seq) + 1 - k]]

\* initial_balance * (1 + risk_percent / 100 * leverage * total / 100)
SimpleClosedForm(p, total) ==
  p.initial_balance + (((p.initial_balance * p.risk_percent) \div 100) * p.leverage * total) \div 10000

\* The simulation loop run over the given order.
LoopOver(p, order) ==
  SimLoop(order, p.sim_type, p.initial_balance, p.risk_percent, p.leverage, p.initial_balance, <<0>>)

Bucket(seq, k, sg) == {i \in 1..k : Sign(seq[i]) = sg}

\* C34: after each processed trade of the streak pass exactly one of the
\* running counters win, loss and be is not 0; each returned maximum is at
\* most the number of processed trades of its kind, and at least 1 when there
\* is one.
C34_StreakCounters ==
  (a_pc = "done" /\ a_trades # <<>>) =>
    LET order == a_out["streaks_order"]
        trace == a_out["streaks_trace"]
        n == Len(order)
        Bounded(max, sg) == /\ max <= Cardinality(Bucket(order, n, sg))
                            /\ Bucket(order, n, sg) # {} => max >= 1
    IN /\ Len(trace) = n
       /\ \A k \in 1..n :
            Cardinality({c \in {"win", "loss", "be"} : trace[k][c] # 0}) = 1
       /\ Bounded(a_out["streaks"].win, 1)
       /\ Bounded(a_out["streaks"].loss, -1)
       /\ Bounded(a_out["streaks"].be, 0)

\* The pass over the signs + + - 0 + + +: after the third trade only the
\* loss counter runs, and the win maximum 3 is below the 5 winning trades.
C34_Witness ==
  /\ a_pc = "done"
  /\ Len(a_out["streaks_trace"]) = 7
  /\ a_out["streaks_trace"][2].win = 2
  /\ a_out["streaks_trace"][3].loss = 1 /\ a_out["streaks_trace"][3].win = 0
  /\ a_out["streaks"].win = 3
  /\ Cardinality(Bucket(a_out["streaks_order"], 7, 1)) = 5

\* ------------------------------------------------------------------------
\* Properties of the simulation runs, continued (specification SpecSim)
\* ------------------------------------------------------------------------
\* The simulation results the cache holds are those of its trade list under
\* the reference parameters.
ReferenceResults(cache) ==
  /\ Has(cache, "sim_compound_results") =>
       cache["sim_compound_results"]
         = calculate_simulation(cache["trades"], "compound", RefBalance, RefRisk, RefLeverage)
  /\ Has(cache, "sim_simple_results") =>
       cache["sim_simple_results"]
         = calculate_simulation(cache["trades"], "simple", RefBalance, RefRisk, RefLeverage)

\* C35: the cached compound and simple simulation results are always the
\* ones computed with the reference parameters (balance 1000, risk 3 %,
\* leverage 35) from the cached trades, and a step of a custom simulation,
\* whatever its parameters, leaves every field of the cache unchanged.
C35_CachedSimulationsUseReference ==
  [][/\ ReferenceResults(STATS_CACHE')
     /\ sim_runs' # sim_runs => STATS_CACHE' = STATS_CACHE]_vars

\* ------------------------------------------------------------------------
\* Properties of the custom simulation dialogue (specification SpecCustom)
\* ------------------------------------------------------------------------
\* initial_balance > 0, 0 < risk_percent <= 100 and leverage > 0
SimulationPreconditions(call) ==
  /\ FloatLt(0, call.initial_balance)
  /\ FloatLt(0, call.risk_percent) /\ FloatLe(call.risk_percent, 100)
  /\ FloatLt(0, call.leverage)

\* A value that is a number in the range of its step.
InRange(step, value) ==
  /\ ~value.raises
  /\ FloatLt(0, value)
  /\ step = "get_risk" => FloatLe(value, 100)

\* C36: every call of calculate_simulation the custom simulation dialogue
\* makes has initial_balance > 0, 0 < risk_percent <= 100 and leverage > 0,
\* and the balance, risk and leverage steps advance only with a value in
\* range.
C36_SimulatePreconditions ==
  [][\A c \in Chats :
       /\ sim_call'[c] # NoCall => SimulationPreconditions(sim_call'[c])
       /\ (sim_state[c] = "get_balance" /\ sim_state'[c] = "get_risk") =>
            InRange("get_balance", sim_data'[c]["balance"])
       /\ (sim_state[c] = "get_risk" /\ sim_state'[c] = "get_leverage") =>
            InRange("get_risk", sim_data'[c]["risk"])
       /\ (sim_state[c] = "get_leverage" /\ sim_state'[c] = "get_sim_type") =>
            InRange("get_leverage", sim_data'[c]["leverage"])]_vars

\* C38: the custom simulations of a user who is not an administrator that
\* completed within one day never exceed CUSTOM_SIM_LIMIT, however the
\* dialogues of the user in several chats interleave.
C38_DailyLimitNeverExceeded == completed_today <= CUSTOM_SIM_LIMIT

InFlight == IF worker.pc \in {"send", "sleep"} THEN <<worker.task>> ELSE <<>>

\* Every task put so far: those tried, the one held, those waiting.
Pipeline(o, held, q) == [i \in 1..Len(o) |-> o[i].task] \o held \o q

IsPrefix(a, b) == Len(a) <= Len(b) /\ SubSeq(b, 1, Len(a)) = a

\* The tasks the handlers can put.
AllTasks ==
  {CopyTask(uid, [chat_id |-> ADMIN, message_id |-> m]) : uid \in 1..NUsers, m \in 1..MaxBroadcasts}

Waiting(task) == \E i \in DOMAIN broadcast_queue : broadcast_queue[i] = task

Tried(task) == Cardinality({i \in DOMAIN outbox : outbox[i].task = task}) = 1

\* The send attempts of a batch.
BatchAttempts(o, b) == {i \in DOMAIN o : o[i].batch = b}

\* The tasks keep their order from the queue to the send attempts, none is
\* lost or tried twice; a put only appends.
OrderKept ==
  [][LET before == Pipeline(outbox, InFlight, broadcast_queue)
         after == Pipeline(outbox', InFlight', broadcast_queue')
     IN /\ IsPrefix(before, after)
        /\ (worker' # worker \/ outbox' # outbox) => after = before
        /\ IsPrefix(outbox, outbox')]_vars

\* task_done has been called once for every task tried.
OneTaskDonePerTask ==
  Len(Pipeline(outbox, InFlight, broadcast_queue)) - unfinished_tasks = Len(outbox)

\* A batch report counts every attempt of its batch, the failed ones too.
ReportCountsBatch ==
  batch_report.batch > 0 =>
    /\ batch_report.sent_total + batch_report.failed_total
         = Cardinality(BatchAttempts(outbox, batch_report.batch))
    /\ batch_report.sent_total
         = Cardinality({i \in BatchAttempts(outbox, batch_report.batch) : outbox[i].ok})

\* C39: every task put on the broadcast queue is eventually taken and
\* processed exactly once by broadcast_worker, in queue order, with one
\* task_done per task taken; a failed send does not stop the batch, and in
\* each batch report sent + failed is the number of tasks processed in the
\* batch.
C39_BroadcastQueueProcessed ==
  /\ OrderKept
  /\ [](OneTaskDonePerTask /\ ReportCountsBatch)
  /\ [](\A i \in DOMAIN outbox : Tried(outbox[i].task))
  /\ \A task \in AllTasks : Waiting(task) ~> Tried(task)
  /\ (unfinished_tasks > 0) ~> (unfinished_tasks = 0)

\* A batch of two tasks was reported in which the first send failed and the
\* second went out; the queue is empty and every task is done.
C39_Witness ==
  /\ batch_report = [batch |-> 1, sent_total |-> 1, failed_total |-> 1]
  /\ Len(outbox) = 2
  /\ ~outbox[1].ok /\ outbox[2].ok
  /\ outbox[1].task.chat_id = 1 /\ outbox[2].task.chat_id = 2
  /\ broadcast_queue = <<>>
  /\ unfinished_tasks = 0
  /\ worker = WorkerStart

====
